---- MODULE Spec2Model ----
(***************************************************************************)
(* A model of fincore.rs: the amortization engine get_payments_table, the  *)
(* schedule preprocessors in front of it, the revenue-tax lookup and the   *)
(* in-memory CDI backend.                                                  *)
(*                                                                         *)
(* Numbers.  rust_decimal::Decimal values are modelled as scaled integers: *)
(*   - a pure number (ratio, factor, rate, index) v is the integer v*10^9, *)
(*   - a monetary value m is the integer m*10^6.                           *)
(* Products and quotients are computed without leaving 32-bit integers,    *)
(* and are cut at the last modelled digit.  Dates are chrono's             *)
(* num_days_from_ce: the number of days since 0001-01-01 (which is day 1). *)
(***************************************************************************)
EXTENDS Integers, Sequences, FiniteSets, TLC

\* ------------------------------------------------------------------------
\* Decimal layer
\* ------------------------------------------------------------------------

U == 1000000000
M == 1000000
CENT_M == 10000
MaxInt == 2147483647

Abs(x) == IF x < 0 THEN -x ELSE x
Sgn(x) == IF x < 0 THEN -1 ELSE 1
Min(a, b) == IF a <= b THEN a ELSE b

\* The pair <<q, r>> stands for q*d + r, with 0 <= r < d.  Carry adds s < d
\* to it, Bit doubles it and adds bit * a: no sum leaves 32 bits.
Carry(q, r, s, d) == IF r >= d - s THEN <<q + 1, r - (d - s)>> ELSE <<q, r + s>>

Bit[p \in Nat \X Nat, a \in Nat, bit \in {0, 1}, d \in Nat] ==
    LET e == Carry(2 * p[1], p[2], p[2], d)
    IN  IF bit = 0 THEN e ELSE Carry(e[1] + (a \div d), e[2], a % d, d)

\* <<q, r>> with a*b = q*d + r and 0 <= r < d, for a, b >= 0 and d > 0, by
\* long multiplication over the base-8 digits of b.
MulDivQR[a \in Nat, b \in Nat, d \in Nat] ==
    IF b = 0 \/ a = 0 THEN <<0, 0>>
    ELSE IF a <= MaxInt \div b THEN <<(a * b) \div d, (a * b) % d>>
    ELSE Bit[Bit[Bit[MulDivQR[a, b \div 8, d], a, (b \div 4) % 2, d],
                 a, (b \div 2) % 2, d],
             a, b % 2, d]

\* a*b/d cut towards zero, for any signs of a and b, d > 0.
MulDiv(a, b, d) == Sgn(a) * Sgn(b) * MulDivQR[Abs(a), Abs(b), d][1]

\* Decimal * Decimal, by the kinds of the operands.
MulUU(x, y) == MulDiv(x, y, U)       \* number * number -> number
MulMU(m, x) == MulDiv(m, x, U)       \* money  * number -> money
\* Decimal / Decimal (the caller has ruled out a zero divisor).
DivUU(x, y) == Sgn(y) * MulDiv(x, U, Abs(y))   \* number / number -> number
DivMM(m, n) == Sgn(n) * MulDiv(m, U, Abs(n))   \* money  / money  -> number

\* Decimal::round_dp(2) on a monetary value: to the cent, a midpoint going to
\* the even cent (rust_decimal's MidpointNearestEven).
RoundDp2(m) ==
    LET a == Abs(m)
        q == a \div CENT_M
        r == a % CENT_M
        up == (2 * r > CENT_M) \/ (2 * r = CENT_M /\ q % 2 = 1)
    IN  Sgn(m) * (IF up THEN q + 1 ELSE q) * CENT_M

\* calculate_interest_factor(rate, period, false) = (1 + rate)^period, with
\* the period given as the fraction num/den (den > 0).  A whole period is the
\* exact repeated product; a fractional one is exp(period * ln(1 + rate)),
\* both series cut after SeriesTerms terms (0 <= rate < 1).
SeriesTerms == 24

PowInt[x \in Int, n \in Nat] == IF n = 0 THEN U ELSE MulUU(PowInt[x, n - 1], x)

\* sum_{k=i..SeriesTerms} (-1)^(k+1) r^k / k, with pw = r^i
LnSeries[r \in Int, pw \in Int, i \in Nat] ==
    IF i > SeriesTerms \/ pw = 0 THEN 0
    ELSE (IF i % 2 = 1 THEN 1 ELSE -1) * (pw \div i) + LnSeries[r, MulUU(pw, r), i + 1]

Ln1p(r) == LnSeries[r, r, 1]

\* sum_{k=i..SeriesTerms} x^k / k!, with term = x^i / i!
ExpSeries[x \in Int, term \in Int, i \in Nat] ==
    IF i > SeriesTerms \/ term = 0 THEN 0
    ELSE term + ExpSeries[x, MulUU(term, x) \div (i + 1), i + 1]

Exp(x) == U + ExpSeries[x, x, 1]

calculate_interest_factor(rate, num, den) ==
    IF num % den = 0
    THEN IF num >= 0 THEN PowInt[U + rate, num \div den]
         ELSE DivUU(U, PowInt[U + rate, (-num) \div den])
    ELSE Exp(MulDiv(Ln1p(rate), num, den))

\* Decimal::is_close_to(other, Some(tolerance)): |self - other| <= tolerance.
is_close_to(x, y, tol) == Abs(x - y) <= tol

\* ------------------------------------------------------------------------
\* Calendar
\* ------------------------------------------------------------------------

\* NaiveDate::from_ymd_opt(y, m, d).unwrap() as a day number (proleptic
\* Gregorian calendar, 0001-01-01 = 1).
from_ymd(y, m, d) ==
    LET yy  == IF m <= 2 THEN y - 1 ELSE y
        era == yy \div 400
        yoe == yy - era * 400
        mp  == (m + 9) % 12
        doy == ((153 * mp + 2) \div 5) + d - 1
        doe == yoe * 365 + (yoe \div 4) - (yoe \div 100) + doy
    IN  era * 146097 + doe - 305

\* The month and the year of a day number (the inverse of from_ymd).
month_of(date) ==
    LET z   == date + 305
        era == z \div 146097
        doe == z - era * 146097
        yoe == (doe - (doe \div 1460) + (doe \div 36524) - (doe \div 146096)) \div 365
        doy == doe - (365 * yoe + (yoe \div 4) - (yoe \div 100))
        mp  == (5 * doy + 2) \div 153
        m   == IF mp < 10 THEN mp + 3 ELSE mp - 9
    IN  [month |-> m, year |-> yoe + era * 400 + (IF m <= 2 THEN 1 ELSE 0)]

\* NaiveDate::days_in_month
days_in_month(date) ==
    LET ym   == month_of(date)
        leap == (ym.year % 4 = 0 /\ ym.year % 100 # 0) \/ ym.year % 400 = 0
    IN  IF ym.month = 2 THEN (IF leap THEN 29 ELSE 28)
        ELSE IF ym.month \in {4, 6, 9, 11} THEN 30 ELSE 31

\* date_range(start_date, end_date): the dates the iterator yields.  It
\* yields start_date first, and after a date d it yields d + 1 when d < end_date.
date_range(start_date, end_date) ==
    IF start_date >= end_date THEN <<start_date>>
    ELSE [i \in 1..(end_date - start_date + 1) |-> start_date + i - 1]

\* diff_surrounding_dates(base, day_of_month): d01 is the anchor day of base's
\* month and d02 is 31 days after or before it; every date of the model is
\* past 0001-02-01, so the panic branch is not reachable.
diff_surrounding_dates(base, day_of_month) == 31

\* ------------------------------------------------------------------------
\* Revenue tax
\* ------------------------------------------------------------------------

I32_MAX == 2147483647

\* (minimum, maximum, rate)
REVENUE_TAX_BRACKETS ==
    << <<0, 180, 225000000>>,
       <<180, 360, 200000000>>,
       <<360, 720, 175000000>>,
       <<720, I32_MAX, 150000000>> >>

PANIC == -1

\* The first bracket, in table order, with minimum < diff <= maximum.
RECURSIVE FirstBracket(_, _)
FirstBracket(diff, i) ==
    IF i > Len(REVENUE_TAX_BRACKETS) THEN PANIC
    ELSE IF REVENUE_TAX_BRACKETS[i][1] < diff /\ diff <= REVENUE_TAX_BRACKETS[i][2]
         THEN REVENUE_TAX_BRACKETS[i][3]
         ELSE FirstBracket(diff, i + 1)

\* A variant of calculate_revenue_tax that counts both end days
calculate_revenue_tax_inclusive(begin, end) ==
    IF end <= begin THEN PANIC ELSE FirstBracket(end - begin + 1, 1)

\* calculate_revenue_tax(begin, end): the rate, or PANIC where the code panics.
calculate_revenue_tax(begin, end) ==
    IF end <= begin THEN PANIC ELSE FirstBracket(end - begin, 1)

\* ------------------------------------------------------------------------
\* Index backend (InMemoryBackend)
\* ------------------------------------------------------------------------

\* InMemoryBackend::_ignore_cdi, the dates of 2022 (the model's dates lie in
\* 2022 to 2024, and the list holds no later date than 2023-06-08).
IGNORE_CDI ==
    { from_ymd(2022, 2, 28), from_ymd(2022, 3, 1), from_ymd(2022, 4, 15),
      from_ymd(2022, 4, 21), from_ymd(2022, 6, 16), from_ymd(2022, 9, 7),
      from_ymd(2022, 10, 12), from_ymd(2022, 11, 2), from_ymd(2022, 11, 15),
      from_ymd(2023, 2, 20), from_ymd(2023, 2, 21), from_ymd(2023, 4, 7),
      from_ymd(2023, 4, 21), from_ymd(2023, 5, 1), from_ymd(2023, 6, 8) }

\* InMemoryBackend::_registry_cdi from 2021-12-09 on, keyed by the first
\* date of each entry: <<date, value>>.
REGISTRY_CDI ==
    << <<from_ymd(2021, 12, 9), 34749000>>,
       <<from_ymd(2022, 2, 3), 40168000>>,
       <<from_ymd(2022, 3, 17), 43739000>>,
       <<from_ymd(2022, 5, 5), 47279000>>,
       <<from_ymd(2022, 6, 17), 49037000>>,
       <<from_ymd(2022, 8, 4), 50788000>> >>

\* The value registered for the date, or failing that the value of the
\* latest registered date before it (ZERO when there is none).
RECURSIVE RegistryValue(_, _, _)
RegistryValue(date, i, last) ==
    IF i > Len(REGISTRY_CDI) THEN last
    ELSE IF REGISTRY_CDI[i][1] <= date
         THEN RegistryValue(date, i + 1, REGISTRY_CDI[i][2])
         ELSE last

\* get_cdi_indexes(begin, end): one DailyIndex for each date of
\* date_range(begin, end) that is not ignored.
get_cdi_indexes(begin, end) ==
    LET dates == date_range(begin, end)
        kept  == SelectSeq(dates, LAMBDA d : d \notin IGNORE_CDI)
    IN  [i \in 1..Len(kept) |-> [date |-> kept[i], value |-> RegistryValue(kept[i], 1, 0)]]

\* Vec<DailyIndex>
DailyIndexes == Seq([date : Int, value : Int])

\* calculate_cdi_factor(begin, end, percentage): <<factor, count>>.
CdiFold[indexes \in DailyIndexes, i \in Nat, percentage \in Int, factor \in Int, count \in Nat] ==
    IF i > Len(indexes) THEN <<factor, count>>
    ELSE IF indexes[i].date \notin IGNORE_CDI
         THEN CdiFold[indexes, i + 1, percentage,
                      MulUU(factor, U + MulDiv(indexes[i].value, percentage, 100)),
                      count + 1]
         ELSE CdiFold[indexes, i + 1, percentage, factor, count]

calculate_cdi_factor(begin, end, percentage) ==
    CdiFold[get_cdi_indexes(begin, end), 1, percentage, U, 0]

\* ------------------------------------------------------------------------
\* Data
\* ------------------------------------------------------------------------

ZERO == 0
ONE == U
CENTI == CENT_M
TOLERANCE == 1

NoOverride ==
    [some |-> FALSE, date_from |-> 0, date_to |-> 0,
     predates_first_amortization |-> FALSE]

DctOverride(from, to, predates) ==
    [some |-> TRUE, date_from |-> from, date_to |-> to,
     predates_first_amortization |-> predates]

Amortization(date, ratio, amortizes_interest, dct_override) ==
    [date |-> date, amortization_ratio |-> ratio,
     amortizes_interest |-> amortizes_interest, dct_override |-> dct_override]

NoVir == [some |-> FALSE, code |-> "none", percentage |-> 0]
Vir(code, percentage) == [some |-> TRUE, code |-> code, percentage |-> percentage]

NoCalcDate == [some |-> FALSE, value |-> 0, runaway |-> FALSE]
CalcDate(value, runaway) == [some |-> TRUE, value |-> value, runaway |-> runaway]

\* Registers::new()
NewRegisters ==
    [interest  |-> [current |-> ZERO, accrued |-> ZERO, deferred |-> ZERO,
                    settled |-> [current |-> ZERO, total |-> ZERO]],
     principal |-> [amortization_ratio |-> [current |-> ZERO, regular |-> ZERO],
                    amortized |-> [current |-> ZERO, total |-> ZERO]]]

\* Vec<Amortization>
Schedules ==
    Seq([date : Int, amortization_ratio : Int, amortizes_interest : BOOLEAN,
         dct_override : [some : BOOLEAN, date_from : Int, date_to : Int,
                         predates_first_amortization : BOOLEAN]])

\* Registers
RegistersType ==
    [interest : [current : Int, accrued : Int, deferred : Int,
                 settled : [current : Int, total : Int]],
     principal : [amortization_ratio : [current : Int, regular : Int],
                  amortized : [current : Int, total : Int]]]

\* The locals of the day loop of get_daily_returns: the date, the indexes of
\* current_amortization and next_amortization, period, count, the number of
\* indexes taken from idxs and the return of the day.
DailyLocals ==
    [ref_date : Int, current : Nat, next : Nat, period : Nat, count : Nat,
     idx : Nat, daily : Int]

\* The locals of the day loop before its first day
NewDaily(ref_date) ==
    [ref_date |-> ref_date, current |-> 1, next |-> 2, period |-> 1, count |-> 1,
     idx |-> 0, daily |-> ZERO]

\* Error messages
ERR_PRINCIPAL == "principal value should be at least 0.01"
ERR_LEN == "at least two amortizations are required: the start of the schedule, and its end"
ERR_FIXED_252 == "fixed interest rates should not use the 252 working days capitalisation"
ERR_CDI_252 == "CDI should use the 252 working days capitalisation"
ERR_OVERFLOW == "the accumulated percentage of the amortizations overflows 1.0"
ERR_NOT_REACH == "the accumulated percentage of the amortizations does not reach 1.0"
ERR_UNSUPPORTED == "Unsupported combination of variable interest rate and capitalisation"
ERR_UNSUPPORTED_INDEX == "Unsupported variable index"
ERR_POUPANCA == "'Poupanca' is currently unsupported"
ERR_TERM == "'term' must be greater than or equal to one"
ERR_ANNIVERSARY_ZERO == "the 'anniversary_date' must be greater than 'zero_date'"
ERR_ANNIVERSARY_FAR == "the 'anniversary_date' is more than 20 days away from the regular payment date"
ERR_INSERTION_VALUE == "invalid value for insertion entry - should be positive"
ERR_INSERTION_EARLY == "'insertions[i].date' must succeed 'zero_date'"
ERR_INSERTION_LATE == "'insertions[i].date' succeeds the regular payment date"
ERR_FIRST_PAYMENT_FAR == "the first payment date is more than 20 days away from the regular payment date"
ERR_UNIQUE == "amortization dates must be unique."

\* ------------------------------------------------------------------------
\* get_payments_table
\* ------------------------------------------------------------------------

\* A variant of calc_balance that leaves the settled interest in the balance
calc_balance_unsettled(principal, f_c, interest_accrued, principal_amortized_total, interest_settled_total) ==
    MulMU(principal, f_c) + interest_accrued - MulMU(principal_amortized_total, f_c)

\* A variant of calc_balance that takes the accrued interest off the balance
calc_balance_less_accrued(principal, f_c, interest_accrued, principal_amortized_total, interest_settled_total) ==
    MulMU(principal, f_c) - interest_accrued - MulMU(principal_amortized_total, f_c)
        - interest_settled_total

calc_balance(principal, f_c, interest_accrued, principal_amortized_total, interest_settled_total) ==
    MulMU(principal, f_c) + interest_accrued
        - MulMU(principal_amortized_total, f_c) - interest_settled_total

\* The sum of the ratios of the first i entries
RECURSIVE RatioSum(_, _)
RatioSum(amortizations, i) ==
    IF i = 0 THEN ZERO
    ELSE RatioSum(amortizations, i - 1) + amortizations[i].amortization_ratio

\* The ratio loop from entry i on, aux being the sum before it: it stops at
\* the first running sum over 1 and not close to it.
RatioLoop[amortizations \in Schedules, i \in Nat, aux \in Int] ==
    IF i > Len(amortizations) THEN [overflows |-> FALSE, aux |-> aux]
    ELSE LET sum == aux + amortizations[i].amortization_ratio
         IN  IF sum > ONE /\ ~is_close_to(sum, ONE, TOLERANCE)
             THEN [overflows |-> TRUE, aux |-> sum]
             ELSE RatioLoop[amortizations, i + 1, sum]

\* A variant of ValidateTable whose running sum has no tolerance above 1
ValidateTableNoTolerance(principal, amortizations, vir, capitalisation) ==
    IF principal = ZERO THEN "empty"
    ELSE IF principal < CENTI THEN ERR_PRINCIPAL
    ELSE IF Len(amortizations) < 2 THEN ERR_LEN
    ELSE IF ~vir.some /\ capitalisation = "Days252" THEN ERR_FIXED_252
    ELSE IF vir.some /\ vir.code = "CDI" /\ capitalisation # "Days252" THEN ERR_CDI_252
    ELSE IF RatioLoop[amortizations, 1, ZERO].overflows
            \/ RatioLoop[amortizations, 1, ZERO].aux > ONE THEN ERR_OVERFLOW
    ELSE IF ~is_close_to(RatioLoop[amortizations, 1, ZERO].aux, ONE, TOLERANCE)
         THEN ERR_NOT_REACH
    ELSE "go"

\* A variant of ValidateTable that counts the entries before it looks at
\* the principal
ValidateTableLenFirst(principal, amortizations, vir, capitalisation) ==
    IF principal = ZERO THEN "empty"
    ELSE IF Len(amortizations) < 2 THEN ERR_LEN
    ELSE IF principal < CENTI THEN ERR_PRINCIPAL
    ELSE IF ~vir.some /\ capitalisation = "Days252" THEN ERR_FIXED_252
    ELSE IF vir.some /\ vir.code = "CDI" /\ capitalisation # "Days252" THEN ERR_CDI_252
    ELSE IF RatioLoop[amortizations, 1, ZERO].overflows THEN ERR_OVERFLOW
    ELSE IF ~is_close_to(RatioLoop[amortizations, 1, ZERO].aux, ONE, TOLERANCE)
         THEN ERR_NOT_REACH
    ELSE "go"

\* A variant of ValidateTable that looks at the principal after the schedule
ValidateTablePrincipalLast(principal, amortizations, vir, capitalisation) ==
    IF Len(amortizations) < 2 THEN ERR_LEN
    ELSE IF ~vir.some /\ capitalisation = "Days252" THEN ERR_FIXED_252
    ELSE IF vir.some /\ vir.code = "CDI" /\ capitalisation # "Days252" THEN ERR_CDI_252
    ELSE IF RatioLoop[amortizations, 1, ZERO].overflows THEN ERR_OVERFLOW
    ELSE IF ~is_close_to(RatioLoop[amortizations, 1, ZERO].aux, ONE, TOLERANCE)
         THEN ERR_NOT_REACH
    ELSE IF principal = ZERO THEN "empty"
    ELSE IF principal < CENTI THEN ERR_PRINCIPAL
    ELSE "go"

\* The validation of get_payments_table, in the order of the code: "empty"
\* (Ok with no row), an error message, or "go".
\* A variant of ValidateTable without the checks of the accumulated ratio
ValidateTableNoRatios(principal, amortizations, vir, capitalisation) ==
    IF principal = ZERO THEN "empty"
    ELSE IF principal < CENTI THEN ERR_PRINCIPAL
    ELSE IF Len(amortizations) < 2 THEN ERR_LEN
    ELSE IF ~vir.some /\ capitalisation = "Days252" THEN ERR_FIXED_252
    ELSE IF vir.some /\ vir.code = "CDI" /\ capitalisation # "Days252" THEN ERR_CDI_252
    ELSE "go"

ValidateTable(principal, amortizations, vir, capitalisation) ==
    IF principal = ZERO THEN "empty"
    ELSE IF principal < CENTI THEN ERR_PRINCIPAL
    ELSE IF Len(amortizations) < 2 THEN ERR_LEN
    ELSE IF ~vir.some /\ capitalisation = "Days252" THEN ERR_FIXED_252
    ELSE IF vir.some /\ vir.code = "CDI" /\ capitalisation # "Days252" THEN ERR_CDI_252
    ELSE IF RatioLoop[amortizations, 1, ZERO].overflows THEN ERR_OVERFLOW
    ELSE IF ~is_close_to(RatioLoop[amortizations, 1, ZERO].aux, ONE, TOLERANCE)
         THEN ERR_NOT_REACH
    ELSE "go"

\* calc_date.unwrap_or(CalcDate { value: amortizations.last().date, runaway: false })
EffectiveCalcDate(calc_date, amortizations) ==
    IF calc_date.some THEN calc_date
    ELSE CalcDate(amortizations[Len(amortizations)].date, FALSE)

\* A variant of InReach that waits for the pair to end before calc_date
InReachEnded(ent0, ent1, calc_date) == ent1.date <= calc_date.value

\* The date guard of phase B.0
InReach(ent0, ent1, calc_date) ==
    ent0.date < calc_date.value \/ ent1.date <= calc_date.value

\* The date guard of phases B.1 and B.2
InReachOrRunaway(ent0, ent1, calc_date) ==
    InReach(ent0, ent1, calc_date) \/ calc_date.runaway

\* The period denominator of the 30/360 branch, with the DCT overrides.
Dct30360(ent0, ent1, num) ==
    LET dct0 == ent1.date - ent0.date
        dct1 == IF ent1.dct_override.some
                THEN IF num = 0 THEN diff_surrounding_dates(ent0.date, 24)
                     ELSE IF ent1.dct_override.predates_first_amortization
                          THEN diff_surrounding_dates(ent1.dct_override.date_from, 24)
                          ELSE ent1.dct_override.date_to - ent1.dct_override.date_from
                ELSE dct0
    IN  IF ent0.dct_override.some
        THEN IF ent0.dct_override.predates_first_amortization
             THEN diff_surrounding_dates(ent0.dct_override.date_from, 24)
             ELSE ent1.date - ent0.dct_override.date_from
        ELSE dct1

\* Phase B.0: [kind, f_s, f_c]; kind is "ok", "err" (the match's last arm)
\* or "panic" (a Decimal division by zero).
Factors(vir, capitalisation, apy, ent0, ent1, num, calc_date) ==
    LET due == Min(calc_date.value, ent1.date)
        ok(f_s) == [kind |-> "ok", f_s |-> f_s, f_c |-> ONE]
    IN  IF ~InReach(ent0, ent1, calc_date) THEN ok(ONE)
        ELSE IF ~vir.some /\ capitalisation = "Days360"
             THEN ok(calculate_interest_factor(apy, due - ent0.date, 360))
        ELSE IF ~vir.some /\ capitalisation = "Days365"
             THEN ok(calculate_interest_factor(apy, due - ent0.date, 365))
        ELSE IF ~vir.some /\ capitalisation = "Days30360"
             THEN LET dcp == due - ent0.date
                      dct == Dct30360(ent0, ent1, num)
                  IN  IF dct = 0 THEN [kind |-> "panic", f_s |-> ONE, f_c |-> ONE]
                      ELSE ok(calculate_interest_factor(apy, Sgn(dct) * dcp, 12 * Abs(dct)))
        ELSE IF vir.some /\ vir.code = "CDI" /\ capitalisation = "Days252"
             THEN LET f_v == calculate_cdi_factor(ent0.date, due, vir.percentage)
                  IN  ok(MulUU(calculate_interest_factor(apy, f_v[2], 252), f_v[1]))
        ELSE [kind |-> "err", f_s |-> ONE, f_c |-> ONE]

\* A variant of AdjustedAmortization that does not divide by what the regular
\* amortizations have left
AdjustedAmortizationUnscaled(p0, ent1) ==
    MulUU(ent1.amortization_ratio, ONE - p0.amortization_ratio.current)

\* "let adj = ...; let amortization = amortization_ratio * adj": p0 is
\* regs.principal, with amortization_ratio.regular # ONE.
AdjustedAmortization(p0, ent1) ==
    MulUU(ent1.amortization_ratio,
          DivUU(ONE - p0.amortization_ratio.current,
                ONE - p0.amortization_ratio.regular))

\* A variant of AmortizedTotal that keeps the amount of the last event only
AmortizedTotalOfEvent(p0, principal, amortization) == MulMU(principal, amortization)

\* "regs.principal.amortized.total = regs.principal.amortization_ratio.current
\* * principal", after amortization was added to the current ratio
AmortizedTotal(p0, principal, amortization) ==
    MulMU(principal, p0.amortization_ratio.current + amortization)

\* Phase B.1, the arm of a regular amortization: [kind, regs]; kind is "ok"
\* or "panic" (adj divides by ONE - amortization_ratio.regular).
RegisterVariations(regs, principal, f_s, f_c, ent1) ==
    LET i0       == regs.interest
        p0       == regs.principal
        current  == MulMU(calc_balance(principal, f_c, i0.accrued,
                                       p0.amortized.total, i0.settled.total),
                          f_s - ONE)
        accrued  == i0.accrued + current
        deferred == accrued - (current + i0.settled.total)
        den      == ONE - p0.amortization_ratio.regular
        amortization == AdjustedAmortization(p0, ent1)
        rcurrent == p0.amortization_ratio.current + amortization
        settled  == IF ent1.amortizes_interest
                    THEN LET sc == current + MulMU(deferred, rcurrent)
                         IN  [current |-> sc, total |-> i0.settled.total + sc]
                    ELSE i0.settled
    IN  IF den = 0 THEN [kind |-> "panic", regs |-> regs]
        ELSE [kind |-> "ok",
              regs |->
                [interest  |-> [current |-> current, accrued |-> accrued,
                                deferred |-> deferred, settled |-> settled],
                 principal |-> [amortization_ratio |->
                                    [current |-> rcurrent,
                                     regular |-> p0.amortization_ratio.regular
                                                   + ent1.amortization_ratio],
                                amortized |->
                                    [current |-> MulMU(principal, amortization),
                                     total   |-> AmortizedTotal(p0, principal,
                                                                amortization)]]]]

\* A variant of RoundPayment that takes net from the raw and tax before they
\* are rounded
RoundPaymentNetUnrounded(p) ==
    [no |-> p.no, date |-> p.date, raw |-> RoundDp2(p.raw), tax |-> RoundDp2(p.tax),
     net |-> RoundDp2(p.raw - p.tax), gain |-> RoundDp2(p.gain),
     amort |-> RoundDp2(p.amort), bal |-> RoundDp2(p.bal)]

\* Phase B.2, "Round values": the six monetary fields at 2 decimal places,
\* net from the raw and tax already rounded.
RoundPayment(p) ==
    LET raw == RoundDp2(p.raw)
        tax == RoundDp2(p.tax)
    IN  [no |-> p.no, date |-> p.date, raw |-> raw, tax |-> tax,
         net |-> RoundDp2(raw - tax), gain |-> RoundDp2(p.gain),
         amort |-> RoundDp2(p.amort), bal |-> RoundDp2(p.bal)]

\* A variant of PaymentTax that ignores the exemption
PaymentTaxNoExemption(regs, ent1, rate, tax_exempt) ==
    IF ent1.amortizes_interest THEN MulMU(regs.interest.settled.current, rate)
    ELSE ZERO

\* The tax of a row: settled interest times the revenue-tax rate, for an
\* entry that amortizes interest; forced to ZERO by the exemption.
PaymentTax(regs, ent1, rate, tax_exempt) ==
    IF tax_exempt.some /\ tax_exempt.value THEN ZERO
    ELSE IF ent1.amortizes_interest THEN MulMU(regs.interest.settled.current, rate)
    ELSE ZERO

\* The raw value of a row
PaymentRaw(regs, ent1) ==
    IF ent1.amortizes_interest
    THEN regs.principal.amortized.current + regs.interest.settled.current
    ELSE IF regs.principal.amortized.current > ZERO
         THEN regs.principal.amortized.current
         ELSE ZERO

PaymentGain(regs, ent1, gain_output) ==
    IF gain_output = "Deferred" THEN regs.interest.deferred + regs.interest.current
    ELSE IF gain_output = "Settled"
         THEN IF ent1.amortizes_interest THEN regs.interest.settled.current ELSE ZERO
         ELSE regs.interest.current

\* "Break if balance is zero": the row just pushed ends the loop
\* A variant of BalanceClosed that never ends the loop
BalanceClosedNever(payment) == FALSE

BalanceClosed(payment) == payment.bal = ZERO

\* A variant of push that puts the row first
push_front(payments, payment) == <<payment>> \o payments

\* payments.push(payment)
push(payments, payment) == Append(payments, payment)

\* Phase B.2: [kind, payment]; kind is "ok" or "panic" (calculate_revenue_tax).
AssemblePayment(regs, principal, f_c, ent1, num, date0, due, tax_exempt, gain_output) ==
    LET rate == IF ent1.amortizes_interest THEN calculate_revenue_tax(date0, due) ELSE ZERO
        p == [no |-> num + 1, date |-> ent1.date,
              raw |-> PaymentRaw(regs, ent1),
              tax |-> PaymentTax(regs, ent1, rate, tax_exempt),
              net |-> ZERO,
              gain |-> PaymentGain(regs, ent1, gain_output),
              amort |-> regs.principal.amortized.current,
              bal |-> calc_balance(principal, f_c, regs.interest.accrued,
                                   regs.principal.amortized.total,
                                   regs.interest.settled.total)]
    IN  IF rate = PANIC THEN [kind |-> "panic", payment |-> p]
        ELSE [kind |-> "ok", payment |-> RoundPayment(p)]

\* ------------------------------------------------------------------------
\* Schedule preprocessors
\* ------------------------------------------------------------------------

NoDate == [some |-> FALSE, value |-> 0]
SomeDate(d) == [some |-> TRUE, value |-> d]

AmortizationBare(date, value) == [date |-> date, value |-> value]

PreOk(sched) == [kind |-> "ok", msg |-> "", sched |-> sched]
PreErr(msg) == [kind |-> "err", msg |-> msg, sched |-> <<>>]

\* The first error of a validation loop over the insertions, "" when none:
\* errors[i] is the error of insertion i, "" when it passes.
FirstError(errors) ==
    LET bad == {i \in 1..Len(errors) : errors[i] # ""}
    IN  IF bad = {} THEN ""
        ELSE errors[CHOOSE i \in bad : \A j \in bad : i <= j]

\* The entry a preprocessor makes from insertion i: l is the date of the
\* regular entry the merge is looking at (NoDate once they are used up) and
\* merged is the schedule built so far.
InsertionEntry(mode, i, l, merged, zero_date, due) ==
    IF mode = "Bullet"
    THEN Amortization(i.date, ZERO, TRUE, DctOverride(zero_date, due, TRUE))
    ELSE IF mode = "Jm"    \* preprocess_jm and preprocess_price
    THEN LET prev_date == IF merged = <<>> THEN zero_date
                          ELSE merged[Len(merged)].date
         IN  Amortization(i.date, ZERO, TRUE,
                 DctOverride(prev_date, IF l.some THEN l.value ELSE i.date,
                             Len(merged) = 1))
    ELSE \* "Livre"
         LET prev_date == IF merged = <<>>
                          THEN (IF l.some THEN l.value ELSE zero_date)
                          ELSE merged[Len(merged)].date
         IN  Amortization(i.date, ZERO, TRUE,
                 DctOverride(prev_date, IF l.some THEN l.value ELSE i.date,
                             merged = <<>>))

\* The two-pointer merge of the preprocessors: the regular entry goes first
\* when l.date <= i.date, otherwise the entry made from the insertion.
RECURSIVE Merge(_, _, _, _, _, _, _, _)
Merge(lst, a, insertions, b, merged, mode, zero_date, due) ==
    IF a > Len(lst) /\ b > Len(insertions) THEN merged
    ELSE IF b > Len(insertions)
         THEN Merge(lst, a + 1, insertions, b, Append(merged, lst[a]),
                    mode, zero_date, due)
    ELSE IF a > Len(lst)
         THEN Merge(lst, a, insertions, b + 1,
                    Append(merged, InsertionEntry(mode, insertions[b], NoDate,
                                                  merged, zero_date, due)),
                    mode, zero_date, due)
    ELSE IF lst[a].date <= insertions[b].date
         THEN Merge(lst, a + 1, insertions, b, Append(merged, lst[a]),
                    mode, zero_date, due)
    ELSE Merge(lst, a, insertions, b + 1,
               Append(merged, InsertionEntry(mode, insertions[b],
                                             SomeDate(lst[a].date), merged,
                                             zero_date, due)),
               mode, zero_date, due)

preprocess_bullet(zero_date, term, insertions, anniversary_date, vir) ==
    LET regular == zero_date + term * 30
        due == IF anniversary_date.some THEN anniversary_date.value ELSE regular
        check(x) == IF x.value <= ZERO THEN ERR_INSERTION_VALUE
                    ELSE IF x.date <= zero_date THEN ERR_INSERTION_EARLY
                    ELSE IF x.date > due THEN ERR_INSERTION_LATE
                    ELSE ""
        errors == [k \in 1..Len(insertions) |-> check(insertions[k])]
        origin == Amortization(zero_date, ZERO, FALSE, NoOverride)
    IN  IF term <= 0 THEN PreErr(ERR_TERM)
        ELSE IF anniversary_date.some /\ anniversary_date.value <= zero_date
             THEN PreErr(ERR_ANNIVERSARY_ZERO)
        ELSE IF anniversary_date.some /\ Abs(anniversary_date.value - regular) > 20
             THEN PreErr(ERR_ANNIVERSARY_FAR)
        ELSE IF FirstError(errors) # "" THEN PreErr(FirstError(errors))
        ELSE IF insertions = <<>> /\ ~vir.some
             THEN PreOk(<< origin,
                           Amortization(due, ONE, TRUE,
                               IF anniversary_date.some
                               THEN DctOverride(due, due, FALSE)
                               ELSE NoOverride) >>)
        ELSE PreOk(Merge(<<origin, Amortization(due, ONE, TRUE, NoOverride)>>, 1,
                         insertions, 1, <<>>, "Bullet", zero_date, due))

preprocess_livre(amortizations, insertions, vir) ==
    LET n == Len(amortizations)
        check(y) == IF y.value <= ZERO THEN ERR_INSERTION_VALUE
                    ELSE IF y.date <= amortizations[1].date THEN ERR_INSERTION_EARLY
                    ELSE IF y.date > amortizations[n].date THEN ERR_INSERTION_LATE
                    ELSE ""
        errors == [k \in 1..Len(insertions) |-> check(insertions[k])]
    IN  IF n < 2 THEN PreErr(ERR_LEN)
        ELSE IF vir.some /\ vir.code = "Poupanca" THEN PreErr(ERR_POUPANCA)
        ELSE IF FirstError(errors) # "" THEN PreErr(FirstError(errors))
        ELSE IF Abs(amortizations[2].date - (amortizations[1].date + 30)) > 20
             THEN PreErr(ERR_FIRST_PAYMENT_FAR)
        ELSE IF Cardinality({amortizations[k].date : k \in 1..n}) # n
             THEN PreErr(ERR_UNIQUE)
        ELSE IF ~is_close_to(RatioSum(amortizations, n), ONE, TOLERANCE)
             THEN PreErr(ERR_NOT_REACH)
        ELSE IF insertions = <<>> THEN PreOk(amortizations)
        ELSE PreOk(Merge(amortizations, 1, insertions, 1, <<>>, "Livre",
                         amortizations[1].date, amortizations[n].date))

\* The regular flow of preprocess_jm and preprocess_price: the origination
\* and one entry every 30 days with the ratios given, the first of them on
\* the anniversary date when there is one.
RegularFlow(zero_date, ratios, anniversary_date) ==
    [i \in 1..(Len(ratios) + 1) |->
        IF i = 1 THEN Amortization(zero_date, ZERO, FALSE, NoOverride)
        ELSE Amortization(
                 IF anniversary_date.some
                 THEN anniversary_date.value + (i - 2) * 30
                 ELSE zero_date + (i - 1) * 30,
                 ratios[i - 1], TRUE,
                 IF i = 2 /\ anniversary_date.some
                 THEN DctOverride(anniversary_date.value,
                                  anniversary_date.value, FALSE)
                 ELSE NoOverride)]

\* The validation preprocess_jm and preprocess_price share, "" when it passes
ValidateMonthly(zero_date, term, insertions, anniversary_date) ==
    LET due == IF anniversary_date.some
               THEN anniversary_date.value + (term - 1) * 30
               ELSE zero_date + term * 30
        check(x) == IF x.date <= zero_date THEN ERR_INSERTION_EARLY
                    ELSE IF x.date > due THEN ERR_INSERTION_LATE
                    ELSE ""
        errors == [k \in 1..Len(insertions) |-> check(insertions[k])]
    IN  IF term <= 0 THEN ERR_TERM
        ELSE IF anniversary_date.some /\ anniversary_date.value <= zero_date
             THEN ERR_ANNIVERSARY_ZERO
        ELSE IF anniversary_date.some
                /\ Abs(anniversary_date.value - (zero_date + 30)) > 20
             THEN ERR_ANNIVERSARY_FAR
        ELSE FirstError(errors)

\* "2. Create amortizations" of preprocess_jm and preprocess_price: an
\* anniversary on the regular date counts as none, and the insertions are
\* merged into the regular flow.
MonthlySchedule(zero_date, ratios, insertions, anniversary_date) ==
    LET anniversary == IF anniversary_date = SomeDate(zero_date + 30)
                       THEN NoDate ELSE anniversary_date
        lst1 == RegularFlow(zero_date, ratios, anniversary)
    IN  IF insertions = <<>> THEN lst1
        ELSE Merge(lst1, 1, insertions, 1, <<>>, "Jm", zero_date,
                   lst1[Len(lst1)].date)

preprocess_jm(zero_date, term, insertions, anniversary_date, vir) ==
    LET error == ValidateMonthly(zero_date, term, insertions, anniversary_date)
    IN  IF error \in {ERR_TERM, ERR_ANNIVERSARY_ZERO, ERR_ANNIVERSARY_FAR}
        THEN PreErr(error)
        ELSE IF vir.some /\ vir.code = "Poupanca" THEN PreErr(ERR_POUPANCA)
        ELSE IF error # "" THEN PreErr(error)
        ELSE PreOk(MonthlySchedule(zero_date,
                       [i \in 1..term |-> IF i = term THEN ONE ELSE ZERO],
                       insertions, anniversary_date))

\* The price-table amortizer: the monthly rate i = (1 + apy)^(1/12) - 1, the
\* instalment per unit of principal i / (1 - (1 + i)^(-term)), and for each
\* month the part of the instalment that is not interest on the balance; the
\* last ratio takes what is left to reach one.  The rate is positive in every
\* call of the model.
PriceRatios[i \in Int, pmt \in Int, bal \in Int, k \in Nat] ==
    IF k = 0 THEN <<>>
    ELSE IF k = 1 THEN <<bal>>
    ELSE LET amort == pmt - MulUU(bal, i)
         IN  <<amort>> \o PriceRatios[i, pmt, bal - amort, k - 1]

amortize_fixed(principal, apy, term) ==
    LET i == calculate_interest_factor(apy, 1, 12) - U
        pmt == DivUU(i, U - DivUU(U, PowInt[U + i, term]))
    IN  PriceRatios[i, pmt, U, term]

preprocess_price(principal, apy, zero_date, term, insertions, anniversary_date) ==
    LET error == ValidateMonthly(zero_date, term, insertions, anniversary_date)
    IN  IF error # "" THEN PreErr(error)
        ELSE PreOk(MonthlySchedule(zero_date,
                       amortize_fixed(principal, apy, term),
                       insertions, anniversary_date))

\* The capitalisation the wrappers hand to get_payments_table
\* A variant of WrapperCapitalisation with the choice get_livre_payments makes
WrapperCapitalisationLivre(vir, capitalisation) ==
    IF vir.some /\ vir.code = "CDI" THEN "Days252" ELSE "Days30360"

WrapperCapitalisation(vir, capitalisation) ==
    IF vir.some /\ vir.code = "CDI" THEN "Days252" ELSE capitalisation

\* ------------------------------------------------------------------------
\* get_daily_returns
\* ------------------------------------------------------------------------

\* The validation of get_daily_returns and the choice of idxs, in the order
\* of the code: "empty", an error message, or "go".
ValidateDaily(principal, amortizations, vir, capitalisation) ==
    LET v == ValidateTable(principal, amortizations, vir, capitalisation)
    IN  IF v # "go" THEN v
        ELSE IF vir.some /\ vir.code # "CDI" THEN ERR_UNSUPPORTED_INDEX
        ELSE "go"

\* get_normalized_cdi_indexes: the index values, each divided by 100
get_normalized_cdi_indexes(start_date, end_date) ==
    LET indexes == get_cdi_indexes(start_date, end_date)
    IN  [i \in 1..Len(indexes) |-> indexes[i].value \div 100]

\* The trackers the day loop sends to.  principal_tracker_1 takes the
\* fraction amortized at an event, principal_tracker_2 the regular ratio,
\* interest_tracker_2 the interest settled, interest_tracker_1 the interest
\* of the day.
principal_tracker_1(r, principal, x) ==
    LET cur == r.principal.amortization_ratio.current + x
    IN  [r EXCEPT !.principal.amortization_ratio.current = cur,
                  !.principal.amortized.current = MulMU(principal, x),
                  !.principal.amortized.total = MulMU(principal, cur)]

principal_tracker_2(r, x) ==
    [r EXCEPT !.principal.amortization_ratio.regular = @ + x]

interest_tracker_2(r, v) ==
    [r EXCEPT !.interest.settled.current = v,
              !.interest.settled.total = @ + v]

interest_tracker_1(r, v) ==
    LET current == r.interest.current + v
        accrued == r.interest.accrued + v
    IN  [r EXCEPT !.interest.current = current,
                  !.interest.accrued = accrued,
                  !.interest.deferred = accrued - (current + r.interest.settled.total)]

\* Phase B.0 of a day: [kind, f_s, f_v, idx]; idx is the number of values
\* taken from idxs so far, and kind is "panic" when idxs has run out.
DailyFactors(vir, capitalisation, apy, amortizations, idxs, d) ==
    LET out(k, s, v, i) == [kind |-> k, f_s |-> s, f_v |-> v, idx |-> i]
        nxt == amortizations[d.next]
        cur == amortizations[d.current]
    IN  IF ~vir.some /\ capitalisation = "Days360"
        THEN out("ok", calculate_interest_factor(apy, 1, 360), ONE, d.idx)
        ELSE IF ~vir.some /\ capitalisation = "Days365"
        THEN out("ok", calculate_interest_factor(apy, 1, 365), ONE, d.idx)
        ELSE IF ~vir.some /\ capitalisation = "Days30360"
        THEN LET v01 == calculate_interest_factor(apy, 1, 12) - ONE
                 v02 == IF d.period = 1 /\ d.ref_date < nxt.date
                        THEN amortizations[2].date - amortizations[1].date
                        ELSE IF d.ref_date = nxt.date THEN days_in_month(nxt.date)
                        ELSE days_in_month(cur.date)
             IN  IF v02 = 0 THEN out("panic", ONE, ONE, d.idx)
                 ELSE out("ok", calculate_interest_factor(v01, Sgn(v02), Abs(v02)),
                          ONE, d.idx)
        ELSE IF vir.some /\ vir.code = "CDI" /\ capitalisation = "Days252"
        THEN IF d.idx >= Len(idxs) THEN out("panic", ONE, ONE, d.idx)
             ELSE LET f_v == MulDiv(idxs[d.idx + 1], vir.percentage, 100) + ONE
                  IN  out("ok",
                          IF f_v > ONE THEN calculate_interest_factor(apy, 1, 252)
                          ELSE ONE,
                          f_v, d.idx + 1)
        ELSE out("err", ONE, ONE, d.idx)

\* The bound on the turns of "while ref_date == next_amortization.date" the
\* model follows on one day; a loop still running after them never ends,
\* because from then on next_amortization stays the last entry.
MaxTurns == 4

\* Phase B.1 of a day, the while loop: [kind, regs, d]; kind is "ok", "panic"
\* (adj divides by ONE - amortization_ratio.regular) or "diverges".
DailyEvents[r \in RegistersType, d \in DailyLocals, principal \in Int, amortizations \in Schedules, turns \in Nat] ==
    LET nxt == amortizations[d.next]
        den == ONE - r.principal.amortization_ratio.regular
        adj == DivUU(ONE - r.principal.amortization_ratio.current, den)
        r1  == principal_tracker_2(
                   principal_tracker_1(r, principal, MulUU(nxt.amortization_ratio, adj)),
                   nxt.amortization_ratio)
        r2  == IF nxt.amortizes_interest
               THEN interest_tracker_2(r1,
                        r1.interest.current
                          + MulMU(r1.interest.deferred,
                                  r1.principal.amortization_ratio.current))
               ELSE r1
        r3  == [r2 EXCEPT !.interest.current = ZERO]
        d3  == [d EXCEPT !.period = @ + 1, !.count = 1, !.current = d.next,
                         !.next = IF d.next < Len(amortizations) THEN d.next + 1
                                  ELSE d.next]
    IN  IF d.ref_date # nxt.date THEN [kind |-> "ok", regs |-> r, d |-> d]
        ELSE IF den = 0 THEN [kind |-> "panic", regs |-> r, d |-> d]
        ELSE IF turns = MaxTurns THEN [kind |-> "diverges", regs |-> r, d |-> d]
        ELSE DailyEvents[r3, d3, principal, amortizations, turns + 1]

\* The balance of the registers
Balance(r, principal, f_c) ==
    calc_balance(principal, f_c, r.interest.accrued, r.principal.amortized.total,
                 r.interest.settled.total)

\* ------------------------------------------------------------------------
\* State
\* ------------------------------------------------------------------------

VARIABLES
    call,       \* the public function called, with its arguments
    kwa,        \* the arguments get_payments_table or get_daily_returns runs with
    pc,         \* "preprocess", "validate", "loop", "daily", "day", "tax", "cdi",
                \* "done"
    result,     \* [kind, msg, rate]: kind is "none", "ok", "err", "panic" or
                \* "diverges"; rate is what calculate_revenue_tax returns
    num,        \* index of the next pair of amortizations.windows(2)
    regs,       \* Registers
    payments,   \* the Payment rows pushed so far
    rowlog,     \* for each Payment pushed, the unrounded registers behind it
    daily,      \* the locals of the day loop of get_daily_returns
    daily_returns,  \* the DailyReturn rows pushed so far
    cdi         \* what the backend returned: the Vec<DailyIndex> of
                \* get_cdi_indexes and the pair of calculate_cdi_factor

vars == <<call, kwa, pc, result, num, regs, payments, rowlog, daily, daily_returns, cdi>>

\* The backend was not called
NoCdi == [indexes |-> <<>>, factor |-> ZERO, count |-> 0]

NoResult == [kind |-> "none", msg |-> "", rate |-> 0]
Ok == [kind |-> "ok", msg |-> "", rate |-> 0]
OkRate(rate) == [kind |-> "ok", msg |-> "", rate |-> rate]
Err(msg) == [kind |-> "err", msg |-> msg, rate |-> 0]
Panic == [kind |-> "panic", msg |-> "", rate |-> 0]
Diverges == [kind |-> "diverges", msg |-> "", rate |-> 0]


NoneBool == [some |-> FALSE, value |-> FALSE]
SomeBool(b) == [some |-> TRUE, value |-> b]

Kwa(principal, apy, amortizations, vir, capitalisation, calc_date, tax_exempt, gain_output) ==
    [principal |-> principal, apy |-> apy, amortizations |-> amortizations,
     vir |-> vir, capitalisation |-> capitalisation, calc_date |-> calc_date,
     tax_exempt |-> tax_exempt, gain_output |-> gain_output]

\* get_payments_table, "Validation" up to "Initialize registers"
Validate ==
    /\ pc = "validate"
    /\ \E v \in {ValidateTable(kwa.principal, kwa.amortizations, kwa.vir,
                               kwa.capitalisation)} :
           /\ pc' = IF v = "go" THEN "loop" ELSE "done"
           /\ result' = IF v = "go" THEN NoResult
                        ELSE IF v = "empty" THEN Ok ELSE Err(v)
    /\ num' = 0
    /\ regs' = NewRegisters
    /\ payments' = <<>>
    /\ rowlog' = <<>>
    /\ UNCHANGED <<cdi, call, kwa, daily, daily_returns>>

\* get_payments_table, one turn of "for (num, (ent0, ent1)) in
\* amortizations.windows(2).enumerate()": phases B.0, B.1 and B.2, the break
\* on a zero balance, and Ok(payments) after the last pair.
Segment ==
    /\ pc = "loop"
    /\ LET ent0 == kwa.amortizations[num + 1]
           ent1 == kwa.amortizations[num + 2]
           calc_date == EffectiveCalcDate(kwa.calc_date, kwa.amortizations)
           due  == Min(calc_date.value, ent1.date)
           last == num + 2 = Len(kwa.amortizations)
           emit == InReachOrRunaway(ent0, ent1, calc_date)
       IN  \E f \in {Factors(kwa.vir, kwa.capitalisation, kwa.apy, ent0, ent1, num,
                             calc_date)} :
           \E r \in {IF emit /\ f.kind = "ok"
                     THEN RegisterVariations(regs, kwa.principal, f.f_s, f.f_c, ent1)
                     ELSE [kind |-> "ok", regs |-> regs]} :
           \E a \in {IF emit /\ f.kind = "ok" /\ r.kind = "ok"
                     THEN AssemblePayment(r.regs, kwa.principal, f.f_c, ent1, num,
                                          kwa.amortizations[1].date, due,
                                          kwa.tax_exempt, kwa.gain_output)
                     ELSE [kind |-> "none", payment |-> <<>>]} :
               IF f.kind = "err"
               THEN /\ pc' = "done"
                    /\ result' = Err(ERR_UNSUPPORTED)
                    /\ UNCHANGED <<num, regs, payments, rowlog>>
               ELSE IF f.kind = "panic" \/ r.kind = "panic" \/ a.kind = "panic"
               THEN /\ pc' = "done"
                    /\ result' = Panic
                    /\ UNCHANGED <<num, regs, payments, rowlog>>
               ELSE /\ regs' = r.regs
                    /\ num' = num + 1
                    /\ payments' = IF emit THEN push(payments, a.payment)
                                   ELSE payments
                    /\ rowlog' = IF emit
                                 THEN Append(rowlog,
                                        [amort |-> r.regs.principal.amortized.current,
                                         settled |-> r.regs.interest.settled.current,
                                         settles |-> ent1.amortizes_interest,
                                         due |-> due])
                                 ELSE rowlog
                    /\ IF (emit /\ BalanceClosed(a.payment)) \/ last
                       THEN pc' = "done" /\ result' = Ok
                       ELSE pc' = "loop" /\ result' = result
    /\ UNCHANGED <<cdi, call, kwa, daily, daily_returns>>

\* The loop of get_payments_table from pair n on, with registers r and
\* arguments k: [kind, payments], the rows it pushes and kind "ok", or kind
\* "fail" when it ends in an error or a panic.
RECURSIVE TableRows(_, _, _)
TableRows(k, n, r) ==
    IF n + 2 > Len(k.amortizations) THEN [kind |-> "ok", payments |-> <<>>]
    ELSE LET ent0 == k.amortizations[n + 1]
             ent1 == k.amortizations[n + 2]
             calc_date == EffectiveCalcDate(k.calc_date, k.amortizations)
             due  == Min(calc_date.value, ent1.date)
             f  == Factors(k.vir, k.capitalisation, k.apy, ent0, ent1, n, calc_date)
             rv == RegisterVariations(r, k.principal, f.f_s, f.f_c, ent1)
             a  == AssemblePayment(rv.regs, k.principal, f.f_c, ent1, n,
                                   k.amortizations[1].date, due, k.tax_exempt,
                                   k.gain_output)
             rest == TableRows(k, n + 1, rv.regs)
             fail == [kind |-> "fail", payments |-> <<>>]
         IN  IF f.kind # "ok" THEN fail
             ELSE IF ~InReachOrRunaway(ent0, ent1, calc_date)
                  THEN TableRows(k, n + 1, r)
             ELSE IF rv.kind # "ok" \/ a.kind # "ok" THEN fail
             ELSE IF BalanceClosed(a.payment)
                  THEN [kind |-> "ok", payments |-> <<a.payment>>]
             ELSE IF rest.kind # "ok" THEN fail
             ELSE [kind |-> "ok", payments |-> <<a.payment>> \o rest.payments]

\* The number of rows the loop of get_payments_table pushes from pair n on,
\* with registers r and arguments k; -1 when it ends in an error or a panic.
RowCount(k, n, r) ==
    IF TableRows(k, n, r).kind # "ok" THEN -1
    ELSE Len(TableRows(k, n, r).payments)

\* get_bullet_payments up to its call of get_payments_table
CallBullet ==
    /\ pc = "preprocess"
    /\ call.fn = "get_bullet_payments"
    /\ \E p \in {preprocess_bullet(call.zero_date, call.term, call.insertions,
                                   call.anniversary_date, call.vir)} :
           IF p.kind = "err"
           THEN /\ pc' = "done"
                /\ result' = Err(p.msg)
                /\ kwa' = kwa
           ELSE /\ pc' = "validate"
                /\ result' = result
                /\ kwa' = Kwa(call.principal, call.apy, p.sched, call.vir,
                              WrapperCapitalisation(call.vir, call.capitalisation),
                              call.calc_date, call.tax_exempt, call.gain_output)
    /\ UNCHANGED <<cdi, call, num, regs, payments, rowlog, daily, daily_returns>>

\* get_livre_payments up to its call of get_payments_table
CallLivre ==
    /\ pc = "preprocess"
    /\ call.fn = "get_livre_payments"
    /\ \E p \in {preprocess_livre(call.amortizations, call.insertions, call.vir)} :
           IF p.kind = "err"
           THEN /\ pc' = "done"
                /\ result' = Err(p.msg)
                /\ kwa' = kwa
           ELSE /\ pc' = "validate"
                /\ result' = result
                /\ kwa' = Kwa(call.principal, call.apy, p.sched, call.vir,
                              WrapperCapitalisation(call.vir, "Days30360"),
                              call.calc_date, call.tax_exempt, call.gain_output)
    /\ UNCHANGED <<cdi, call, num, regs, payments, rowlog, daily, daily_returns>>

\* get_jm_payments up to its call of get_payments_table
CallJm ==
    /\ pc = "preprocess"
    /\ call.fn = "get_jm_payments"
    /\ \E p \in {preprocess_jm(call.zero_date, call.term, call.insertions,
                               call.anniversary_date, call.vir)} :
           IF p.kind = "err"
           THEN /\ pc' = "done"
                /\ result' = Err(p.msg)
                /\ kwa' = kwa
           ELSE /\ pc' = "validate"
                /\ result' = result
                /\ kwa' = Kwa(call.principal, call.apy, p.sched, call.vir,
                              WrapperCapitalisation(call.vir, "Days30360"),
                              call.calc_date, call.tax_exempt, call.gain_output)
    /\ UNCHANGED <<cdi, call, num, regs, payments, rowlog, daily, daily_returns>>

\* get_price_payments up to its call of get_payments_table
CallPrice ==
    /\ pc = "preprocess"
    /\ call.fn = "get_price_payments"
    /\ \E p \in {preprocess_price(call.principal, call.apy, call.zero_date,
                                  call.term, call.insertions,
                                  call.anniversary_date)} :
           IF p.kind = "err"
           THEN /\ pc' = "done"
                /\ result' = Err(p.msg)
                /\ kwa' = kwa
           ELSE /\ pc' = "validate"
                /\ result' = result
                /\ kwa' = Kwa(call.principal, call.apy, p.sched, NoVir,
                              "Days30360", call.calc_date, call.tax_exempt,
                              call.gain_output)
    /\ UNCHANGED <<cdi, call, num, regs, payments, rowlog, daily, daily_returns>>

\* get_daily_returns, "A. Validate and prepare for execution" up to the
\* first amortization_iter.next()
DailyValidate ==
    /\ pc = "daily"
    /\ \E v \in {ValidateDaily(kwa.principal, kwa.amortizations, kwa.vir,
                               kwa.capitalisation)} :
           /\ pc' = IF v = "go" THEN "day" ELSE "done"
           /\ result' = IF v = "go" THEN NoResult
                        ELSE IF v = "empty" THEN Ok ELSE Err(v)
           /\ daily' = IF v = "go" THEN NewDaily(kwa.amortizations[1].date) ELSE daily
    /\ regs' = NewRegisters
    /\ daily_returns' = <<>>
    /\ UNCHANGED <<cdi, call, kwa, num, payments, rowlog>>

\* get_daily_returns, one turn of "for ref_date in date_range(...)": phases
\* B.0, B.1 and B.2, the break on a zero balance, and Ok(daily_returns)
\* after the last date.
DailyDay ==
    /\ pc = "day"
    /\ LET n     == Len(kwa.amortizations)
           dates == date_range(kwa.amortizations[1].date, kwa.amortizations[n].date)
           idxs  == IF kwa.vir.some
                    THEN get_normalized_cdi_indexes(kwa.amortizations[1].date,
                                                    kwa.amortizations[n].date)
                    ELSE <<>>
           last  == daily.ref_date = dates[Len(dates)]
       IN  \E f \in {DailyFactors(kwa.vir, kwa.capitalisation, kwa.apy,
                                  kwa.amortizations, idxs, daily)} :
           \E e \in {IF f.kind = "ok"
                     THEN DailyEvents[regs, [daily EXCEPT !.idx = f.idx],
                                      kwa.principal, kwa.amortizations, 0]
                     ELSE [kind |-> "none", regs |-> regs, d |-> daily]} :
           \E v \in {MulMU(Balance(e.regs, kwa.principal, ONE),
                           MulUU(f.f_s, f.f_v) - ONE)} :
           \E r \in {interest_tracker_1(e.regs, v)} :
           \E bal \in {RoundDp2(Balance(r, kwa.principal, ONE))} :
               IF f.kind # "ok" \/ e.kind # "ok"
               THEN /\ pc' = "done"
                    /\ result' = IF f.kind = "err" THEN Err(ERR_UNSUPPORTED)
                                 ELSE IF f.kind = "panic" \/ e.kind = "panic"
                                      THEN Panic
                                 ELSE Diverges
                    /\ UNCHANGED <<regs, daily, daily_returns>>
               ELSE /\ regs' = r
                    /\ IF bal = ZERO
                       THEN /\ pc' = "done"
                            /\ result' = Ok
                            /\ daily' = [e.d EXCEPT !.daily = v]
                            /\ daily_returns' = daily_returns
                       ELSE /\ daily_returns' =
                                Append(daily_returns,
                                       [no |-> e.d.count, period |-> e.d.period,
                                        date |-> daily.ref_date,
                                        value |-> RoundDp2(v), bal |-> bal,
                                        fixed_factor |-> f.f_s,
                                        variable_factor |-> f.f_v])
                            /\ daily' = [e.d EXCEPT !.daily = v, !.count = @ + 1,
                                                    !.ref_date = @ + 1]
                            /\ pc' = IF last THEN "done" ELSE "day"
                            /\ result' = IF last THEN Ok ELSE result
    /\ UNCHANGED <<cdi, call, kwa, num, payments, rowlog>>

\* calculate_revenue_tax, called on its own
RevenueTax ==
    /\ pc = "tax"
    /\ \E rate \in {calculate_revenue_tax(call.begin, call.end)} :
           result' = IF rate = PANIC THEN Panic ELSE OkRate(rate)
    /\ pc' = "done"
    /\ UNCHANGED <<cdi, call, kwa, num, regs, payments, rowlog, daily, daily_returns>>

\* InMemoryBackend::calculate_cdi_factor, called on its own: the indexes it
\* gets from get_cdi_indexes, and the factor and the count it returns
CdiFactor ==
    /\ pc = "cdi"
    /\ \E r \in {calculate_cdi_factor(call.begin, call.end, call.percentage)} :
           cdi' = [indexes |-> get_cdi_indexes(call.begin, call.end),
                   factor |-> r[1], count |-> r[2]]
    /\ result' = Ok
    /\ pc' = "done"
    /\ UNCHANGED <<call, kwa, num, regs, payments, rowlog, daily, daily_returns>>

\* ------------------------------------------------------------------------
\* Calls
\* ------------------------------------------------------------------------

MaxEntries == 3

ZeroDate == from_ymd(2022, 1, 1)

\* 0.5 - 2e-9, 0.5, 0.5 + 1e-9: sums on either side of the 1e-9 tolerance
Ratios == {0, 500000000, U}
RatiosFine == {0, 499999998, 500000000, 500000001, U}
Offsets == {0, 360, 720}
Principals == {50000, 100 * M}
PrincipalsLow == {-1 * M, 0, 1000, 100 * M}
Apys == {0, 100000000}
Capitalisations == {"Days252", "Days360", "Days365", "Days30360"}
Virs == {NoVir, Vir("CDI", 100), Vir("Poupanca", 100)}
GainOutputs == {"Current", "Deferred", "Settled"}
TaxExempts == {NoneBool, SomeBool(TRUE)}

\* The arguments of a wrapper's call before its preprocessor has run
NoKwa == Kwa(ZERO, ZERO, <<>>, NoVir, "Days360", NoCalcDate, NoneBool, "Current")

\* Yearly schedules for the engine: the first entry on ZeroDate, the others a
\* whole number of years after it in any order of the dates, with every
\* choice of the flags, the ratios summing to 1.
EngineSchedule(first, rest) ==
    [i \in 1..(Len(rest) + 1) |->
        IF i = 1 THEN Amortization(ZeroDate, first, FALSE, NoOverride)
        ELSE Amortization(ZeroDate + rest[i - 1][1], rest[i - 1][2], rest[i - 1][3],
                          NoOverride)]
EngineSchedules ==
    { s \in UNION { { EngineSchedule(first, rest) :
                        first \in {0, 500000000},
                        rest \in [1..n -> Offsets \X Ratios \X BOOLEAN] } :
                    n \in 1..(MaxEntries - 1) } :
        RatioLoop[s, 1, ZERO] = [overflows |-> FALSE, aux |-> ONE] }

\* Schedules a few days long, with sorted dates, for the validation.
ShortSchedule(r) ==
    [i \in 1..Len(r) |-> Amortization(ZeroDate + 2 * (i - 1), r[i], i > 1, NoOverride)]
ShortSchedules ==
    UNION { {ShortSchedule(r) : r \in [1..n -> RatiosFine]} : n \in 1..MaxEntries }
FewSchedules ==
    { <<>>, ShortSchedule(<<U>>), ShortSchedule(<<0, U>>), ShortSchedule(<<0, 500000000>>),
      ShortSchedule(<<0, U, 0>>), ShortSchedule(<<0, 500000000, 500000000>>),
      ShortSchedule(<<500000000, 500000000, 500000000>>),
      ShortSchedule(<<500000000, 500000000, 0>>),
      [ShortSchedule(<<0, U, 0>>) EXCEPT ![2].amortizes_interest = FALSE] }

TableCall(k) == [fn |-> "get_payments_table", kwa |-> k]
DailyCall(k) == [fn |-> "get_daily_returns", kwa |-> k]

InitEngine ==
    \E principal \in Principals, apy \in Apys, s \in EngineSchedules,
       tax_exempt \in TaxExempts, gain_output \in GainOutputs :
        /\ kwa = Kwa(principal, apy, s, NoVir, "Days360", NoCalcDate, tax_exempt,
                     gain_output)
        /\ call = TableCall(kwa)

InitValidation ==
    \/ \E principal \in PrincipalsLow, s \in ShortSchedules :
        /\ kwa = Kwa(principal, 100000000, s, NoVir, "Days365", NoCalcDate,
                     NoneBool, "Current")
        /\ call = TableCall(kwa)
    \/ \E principal \in PrincipalsLow, s \in FewSchedules, vir \in Virs,
          capitalisation \in Capitalisations :
        /\ kwa = Kwa(principal, 100000000, s, vir, capitalisation, NoCalcDate,
                     NoneBool, "Current")
        /\ call = TableCall(kwa)

InitDaily ==
    \E principal \in PrincipalsLow, s \in FewSchedules, vir \in Virs,
       capitalisation \in Capitalisations :
        /\ kwa = Kwa(principal, 100000000, s, vir, capitalisation, NoCalcDate,
                     NoneBool, "Current")
        /\ call = DailyCall(kwa)

\* get_daily_returns with CDI: a schedule of two entries over a range with no
\* ignored date, over one with the ignored 2022-06-16 just before the index
\* changes, and over one with the ignored 2022-02-28 and 2022-03-01 and the
\* change of the index on 2022-03-17.
CdiSchedules ==
    { << Amortization(first, ZERO, FALSE, NoOverride),
         Amortization(last, ONE, TRUE, NoOverride) >> :
        <<first, last>> \in { <<from_ymd(2022, 1, 3), from_ymd(2022, 1, 7)>>,
                              <<from_ymd(2022, 6, 14), from_ymd(2022, 6, 19)>>,
                              <<from_ymd(2022, 2, 27), from_ymd(2022, 3, 18)>> } }
InitDailyCdi ==
    \E s \in CdiSchedules, percentage \in {100, 120}, apy \in Apys :
        /\ kwa = Kwa(100 * M, apy, s, Vir("CDI", percentage), "Days252",
                     NoCalcDate, NoneBool, "Current")
        /\ call = DailyCall(kwa)

\* get_payments_table with ratios below 0 and above 1 whose running sum
\* never passes 1 and ends on 1, which the validation accepts, and one whose
\* running sum passes 1.
SignedSchedules ==
    { EngineSchedule(ZERO, << <<360, -500000000, b>>, <<720, 1500000000, TRUE>> >>) :
          b \in BOOLEAN }
    \cup { EngineSchedule(-500000000, << <<360, 1500000000, TRUE>> >>),
           EngineSchedule(ZERO, << <<360, 1500000000, TRUE>>, <<720, -500000000, TRUE>> >>) }
InitSigned ==
    \E s \in SignedSchedules, apy \in Apys, gain_output \in GainOutputs :
        /\ kwa = Kwa(100 * M, apy, s, NoVir, "Days360", NoCalcDate, NoneBool,
                     gain_output)
        /\ call = TableCall(kwa)

\* get_payments_table with a calc_date: yearly schedules of three and four
\* entries that all amortize interest but for the first, and one whose second
\* entry does not, with a calc_date in each of their years, before and on
\* their first date, and after their last.
RunawaySchedules ==
    { EngineSchedule(ZERO, << <<360, 500000000, TRUE>>, <<720, 500000000, TRUE>> >>),
      EngineSchedule(ZERO, << <<360, 500000000, FALSE>>, <<720, 500000000, TRUE>> >>),
      EngineSchedule(ZERO, << <<360, 500000000, TRUE>>, <<720, 250000000, TRUE>>,
                              <<1080, 250000000, TRUE>> >>) }
CalcDates ==
    { CalcDate(ZeroDate + after, runaway) :
        after \in {-30, 0, 180, 360, 540, 900, 1080, 1200}, runaway \in BOOLEAN }
InitRunaway ==
    \E s \in RunawaySchedules, calc_date \in CalcDates, apy \in Apys,
       gain_output \in GainOutputs :
        /\ kwa = Kwa(100 * M, apy, s, NoVir, "Days360", calc_date, NoneBool,
                     gain_output)
        /\ call = TableCall(kwa)

\* get_bullet_payments: terms of 0, 1, 12 and 24 months from ZeroDate, with
\* no insertion, a good one or one of value zero.
BulletTerms == {0, 1, 12, 24}
BulletInsertions ==
    { <<>>, <<AmortizationBare(ZeroDate + 15, 100 * M)>>,
      <<AmortizationBare(ZeroDate + 15, ZERO)>> }
\* Insertion lists for a schedule whose last regular date is last: one on
\* the origination, on a regular date, on the last regular date and after it,
\* of a negative value, two between two regular dates, and two out of order.
Insertions(last) ==
    { <<AmortizationBare(ZeroDate + 15, -100 * M)>>,
      <<AmortizationBare(ZeroDate, 100 * M)>>,
      <<AmortizationBare(ZeroDate + 30, 100 * M)>>,
      <<AmortizationBare(last, 100 * M)>>,
      <<AmortizationBare(last + 1, 100 * M)>>,
      <<AmortizationBare(ZeroDate + 10, 100 * M),
        AmortizationBare(ZeroDate + 20, 100 * M)>>,
      <<AmortizationBare(ZeroDate + 20, 100 * M),
        AmortizationBare(ZeroDate + 10, 100 * M)>> }
InitBullet ==
    \E term \in BulletTerms, gap \in {-1, 5, 25},
       capitalisation \in {"Days360", "Days365"}, tax_exempt \in TaxExempts :
    \E insertions \in BulletInsertions
                       \cup Insertions(ZeroDate + term * 30
                                        + (IF gap = -1 THEN 0 ELSE gap)) :
        /\ call = [fn |-> "get_bullet_payments", principal |-> 1000 * M,
                   apy |-> 100000000, zero_date |-> ZeroDate, term |-> term,
                   insertions |-> insertions,
                   anniversary_date |-> IF gap = -1 THEN NoDate
                                        ELSE SomeDate(ZeroDate + term * 30 + gap),
                   vir |-> NoVir, calc_date |-> NoCalcDate,
                   capitalisation |-> capitalisation, tax_exempt |-> tax_exempt,
                   gain_output |-> "Current"]
        /\ kwa = NoKwa

\* get_livre_payments: an origination and regular entries every Step days.
LivreSchedule(r, step) ==
    [i \in 1..(Len(r) + 1) |->
        IF i = 1 THEN Amortization(ZeroDate, ZERO, FALSE, NoOverride)
        ELSE Amortization(ZeroDate + step * (i - 1), r[i - 1], TRUE, NoOverride)]
LivreRatios ==
    { <<400000000, 400000000, 300000000>>, <<300000000, 300000000, 400000000>>,
      <<400000000, 400000000>>, <<500000000, 500000000>>, <<U>>, <<>> }
InitLivre ==
    \E r \in LivreRatios, step \in {0, 30, 60},
       vir \in {NoVir, Vir("Poupanca", 100)} :
    \E insertions \in { <<>>, <<AmortizationBare(ZeroDate + 15, 100 * M)>>,
                        <<AmortizationBare(ZeroDate, 100 * M)>> }
                      \cup Insertions(ZeroDate + step * Len(r)) :
        /\ call = [fn |-> "get_livre_payments", principal |-> 1000 * M,
                   apy |-> 100000000, amortizations |-> LivreSchedule(r, step),
                   insertions |-> insertions, vir |-> vir,
                   calc_date |-> NoCalcDate, tax_exempt |-> NoneBool,
                   gain_output |-> "Current"]
        /\ kwa = NoKwa

\* get_jm_payments and get_price_payments: terms of 0 to MaxTerm months
\* from ZeroDate, with the insertion lists of get_bullet_payments.
MaxTerm == 3
InitJm ==
    \E term \in 0..MaxTerm, gap \in {-1, 0, 5, 25},
       vir \in {NoVir, Vir("Poupanca", 100)} :
    \E insertions \in BulletInsertions
                       \cup Insertions(ZeroDate + term * 30
                                        + (IF gap = -1 THEN 0 ELSE gap)) :
        /\ call = [fn |-> "get_jm_payments", principal |-> 1000 * M,
                   apy |-> 100000000, zero_date |-> ZeroDate, term |-> term,
                   insertions |-> insertions,
                   anniversary_date |-> IF gap = -1 THEN NoDate
                                        ELSE SomeDate(ZeroDate + 30 + gap),
                   vir |-> vir, calc_date |-> NoCalcDate,
                   tax_exempt |-> NoneBool, gain_output |-> "Current"]
        /\ kwa = NoKwa
InitPrice ==
    \E term \in 0..MaxTerm, gap \in {-1, 0, 5, 25}, apy \in {100000000, 120000000} :
    \E insertions \in BulletInsertions
                       \cup Insertions(ZeroDate + term * 30
                                        + (IF gap = -1 THEN 0 ELSE gap)) :
        /\ call = [fn |-> "get_price_payments", principal |-> 1000 * M,
                   apy |-> apy, zero_date |-> ZeroDate, term |-> term,
                   insertions |-> insertions,
                   anniversary_date |-> IF gap = -1 THEN NoDate
                                        ELSE SomeDate(ZeroDate + 30 + gap),
                   calc_date |-> NoCalcDate,
                   tax_exempt |-> NoneBool, gain_output |-> "Current"]
        /\ kwa = NoKwa

\* calculate_revenue_tax: holding periods on both sides of each bracket's
\* ends, and ends that do not follow the beginning.
TaxBegins == {ZeroDate, from_ymd(2020, 2, 29)}
TaxDiffs == {-1, 0, 1, 2, 90, 179, 180, 181, 182, 270, 359, 360, 361, 362, 540,
             719, 720, 721, 722, 1000, 3650}
InitTax ==
    \E begin \in TaxBegins, diff \in TaxDiffs :
        /\ call = [fn |-> "calculate_revenue_tax", begin |-> begin,
                   end |-> begin + diff]
        /\ kwa = NoKwa

\* calculate_cdi_factor: ranges of up to MaxRange days that begin around the
\* ignored dates 2022-02-28, 2022-03-01 and 2022-06-16, and ends that do not
\* follow the beginning.
MaxRange == 5
CdiBegins ==
    { from_ymd(2022, 1, 3), from_ymd(2022, 2, 25), from_ymd(2022, 2, 27),
      from_ymd(2022, 2, 28), from_ymd(2022, 3, 1), from_ymd(2022, 6, 14),
      from_ymd(2022, 6, 16) }
InitCdi ==
    \E begin \in CdiBegins, diff \in (-1)..MaxRange, percentage \in {0, 100, 120} :
        /\ call = [fn |-> "calculate_cdi_factor", begin |-> begin,
                   end |-> begin + diff, percentage |-> percentage]
        /\ kwa = NoKwa

Init ==
    /\ \/ InitEngine \/ InitValidation \/ InitSigned \/ InitRunaway \/ InitDaily \/ InitDailyCdi
       \/ InitBullet \/ InitJm \/ InitPrice \/ InitLivre \/ InitTax \/ InitCdi
    /\ pc = IF call.fn = "get_payments_table" THEN "validate"
            ELSE IF call.fn = "get_daily_returns" THEN "daily"
            ELSE IF call.fn = "calculate_revenue_tax" THEN "tax"
            ELSE IF call.fn = "calculate_cdi_factor" THEN "cdi"
            ELSE "preprocess"
    /\ result = NoResult
    /\ num = 0
    /\ regs = NewRegisters
    /\ payments = <<>>
    /\ rowlog = <<>>
    /\ daily = NewDaily(ZeroDate)
    /\ daily_returns = <<>>
    /\ cdi = NoCdi

Next ==
    \/ CallBullet
    \/ CallJm
    \/ CallPrice
    \/ CallLivre
    \/ Validate
    \/ Segment
    \/ DailyValidate
    \/ DailyDay
    \/ RevenueTax
    \/ CdiFactor

Spec == Init /\ [][Next]_vars

\* ------------------------------------------------------------------------
\* Properties
\* ------------------------------------------------------------------------

TableFns == {"get_payments_table", "get_bullet_payments", "get_livre_payments"}

\* get_payments_table, called directly or by a wrapper with the default
\* calc_date, has accepted its arguments and returned its table.
TableReturned ==
    /\ call.fn \in TableFns
    /\ pc = "done"
    /\ result.kind = "ok"
    /\ kwa.principal # ZERO
    /\ ~kwa.calc_date.some

Sorted(s) == \A i \in 1..(Len(s) - 1) : s[i].date <= s[i + 1].date

\* A schedule that starts with an origination entry of ratio 0, has dates
\* that never go back, and has ratios summing to exactly 1.
WellFormed(s) ==
    /\ s[1].amortization_ratio = ZERO
    /\ Sorted(s)
    /\ RatioSum(s, Len(s)) = ONE

LastEntry == kwa.amortizations[Len(kwa.amortizations)]
LastRow == payments[Len(payments)]

RECURSIVE SumAmort(_, _)
SumAmort(log, i) == IF i = 0 THEN ZERO ELSE SumAmort(log, i - 1) + log[i].amort

\* The interest row i settles: none when its entry does not amortize interest.
SettledAt(i) == IF rowlog[i].settles THEN rowlog[i].settled ELSE ZERO

Exempt == kwa.tax_exempt.some /\ kwa.tax_exempt.value

\* C1, as stated: for every accepted schedule with the default calc_date the
\* last row of the table has bal = 0.00, whatever the amortizes_interest flags.
C1_Original ==
    (TableReturned /\ payments # <<>>) => LastRow.bal = ZERO

\* C1: for an accepted schedule with the default calc_date whose first ratio
\* is 0, whose dates never go back, whose ratios sum to exactly 1 and whose
\* last entry amortizes interest, the last row of the table has bal = 0.00,
\* whatever the amortizes_interest flags of the other entries.
C1_FinalBalance ==
    (TableReturned /\ WellFormed(kwa.amortizations) /\ LastEntry.amortizes_interest)
        => (payments # <<>> /\ LastRow.bal = ZERO)

\* A two-row table whose first entry defers its interest and whose last
\* settles it all
C1_Witness ==
    /\ TableReturned
    /\ WellFormed(kwa.amortizations)
    /\ LastEntry.amortizes_interest
    /\ ~kwa.amortizations[2].amortizes_interest
    /\ kwa.apy > ZERO
    /\ Len(payments) = 2
    /\ payments[1].bal > ZERO
    /\ rowlog[2].settled > ZERO
    /\ LastRow.bal = ZERO

\* C2, as stated: for every accepted schedule with the default calc_date the
\* unrounded amort of the rows adds up to the principal, to the last cent.
C2_Original ==
    TableReturned => Abs(SumAmort(rowlog, Len(rowlog)) - kwa.principal) < CENTI

\* C2: for an accepted schedule with the default calc_date whose first ratio
\* is 0, whose dates never go back and whose ratios sum to exactly 1, the
\* unrounded amort of the rows adds up to the principal, less than a cent
\* apart.
C2_AmortSum ==
    (TableReturned /\ WellFormed(kwa.amortizations))
        => Abs(SumAmort(rowlog, Len(rowlog)) - kwa.principal) < CENTI

\* Two rows that each amortize a part of the principal
C2_Witness ==
    /\ TableReturned
    /\ WellFormed(kwa.amortizations)
    /\ Len(rowlog) = 2
    /\ rowlog[1].amort > ZERO
    /\ rowlog[2].amort > ZERO
    /\ rowlog[1].amort + rowlog[2].amort = kwa.principal

\* C3: on the values of every row pushed, net = raw - tax exactly, for every
\* gain_output and tax_exempt.
C3_NetIsRawLessTax ==
    call.fn \in TableFns
        => \A i \in 1..Len(payments) :
               payments[i].net = payments[i].raw - payments[i].tax

\* A taxed row whose raw value changes in the rounding
C3_Witness ==
    /\ TableReturned
    /\ kwa.gain_output = "Deferred"
    /\ \E i \in 1..Len(payments) :
           /\ payments[i].tax > ZERO
           /\ payments[i].net = payments[i].raw - payments[i].tax
           /\ payments[i].raw # rowlog[i].amort + SettledAt(i)

\* What C4 says of row i
TaxRule(i) ==
    IF Exempt
    THEN payments[i].tax = ZERO /\ payments[i].net = payments[i].raw
    ELSE /\ payments[i].tax =
                IF SettledAt(i) = ZERO THEN ZERO
                ELSE RoundDp2(MulMU(SettledAt(i),
                                    calculate_revenue_tax(kwa.amortizations[1].date,
                                                          rowlog[i].due)))
         /\ ZERO <= payments[i].tax
         /\ payments[i].tax <= SettledAt(i)

\* C4, as stated: in every row the tax is 0 when the event settles no
\* interest and else the interest settled times the rate of
\* calculate_revenue_tax(schedule[0].date, due), so 0 <= tax <= interest
\* settled; with tax_exempt every row has tax = 0 and net = raw.
C4_Original ==
    TableReturned => \A i \in 1..Len(payments) : TaxRule(i)

\* C4: the same, for schedules whose dates never go back and apy >= 0.
C4_Tax ==
    (TableReturned /\ Sorted(kwa.amortizations) /\ kwa.apy >= ZERO)
        => \A i \in 1..Len(payments) : TaxRule(i)

\* A table with a row that settles no interest and a row taxed on the
\* interest it settles
C4_Witness ==
    /\ TableReturned
    /\ Sorted(kwa.amortizations)
    /\ ~Exempt
    /\ \E i, j \in 1..Len(payments) :
           /\ ~rowlog[i].settles
           /\ payments[i].tax = ZERO
           /\ rowlog[j].settles
           /\ payments[j].tax > ZERO
           /\ payments[j].tax < rowlog[j].settled

\* C5: for end > begin calculate_revenue_tax returns 0.225 up to 180 days,
\* 0.20 up to 360, 0.175 up to 720 and 0.15 beyond, 180, 360 and 720 falling
\* in the lower bracket, and a longer holding never has a higher rate.
C5_Brackets ==
    (call.fn = "calculate_revenue_tax" /\ pc = "done" /\ call.end > call.begin)
        => /\ result.kind = "ok"
           /\ result.rate = IF call.end - call.begin <= 180 THEN 225000000
                            ELSE IF call.end - call.begin <= 360 THEN 200000000
                            ELSE IF call.end - call.begin <= 720 THEN 175000000
                            ELSE 150000000
           /\ \A d \in TaxDiffs :
                (0 < d /\ d <= call.end - call.begin)
                    => calculate_revenue_tax(call.begin, call.begin + d) >= result.rate

\* A holding of exactly 360 days, taxed at 0.20
C5_Witness ==
    /\ call.fn = "calculate_revenue_tax"
    /\ pc = "done"
    /\ call.end - call.begin = 360
    /\ result = OkRate(200000000)

\* The bullet of the scenario: 1000.00 at 10% from 2022-01-01 for 12 months,
\* 360 days a year, no insertion, no anniversary date, no vir, taxed.
BulletScenario ==
    /\ call.fn = "get_bullet_payments"
    /\ call.principal = 1000 * M
    /\ call.apy = 100000000
    /\ call.zero_date = from_ymd(2022, 1, 1)
    /\ call.term = 12
    /\ call.insertions = <<>>
    /\ ~call.anniversary_date.some
    /\ ~call.vir.some
    /\ call.capitalisation = "Days360"
    /\ ~call.tax_exempt.some
    /\ pc = "done"

BulletRow(date, tax, net) ==
    [no |-> 1, date |-> date, raw |-> 1100 * M, tax |-> tax, net |-> net,
     gain |-> 100 * M, amort |-> 1000 * M, bal |-> ZERO]

\* C6, as stated: the bullet of the scenario returns one row, dated
\* 2023-01-01, with amort 1000.00, gain 100.00, raw 1100.00, tax 15.00,
\* net 1085.00 and bal 0.00.
C6_Original ==
    BulletScenario
        => (result = Ok /\ payments = <<BulletRow(from_ymd(2023, 1, 1), 15 * M, 1085 * M)>>)

\* C6: the bullet of the scenario returns one row, dated 2022-12-27 (360
\* days after zero_date), with amort 1000.00, gain 100.00, raw 1100.00,
\* tax 20.00, net 1080.00 and bal 0.00.
C6_BulletRow ==
    BulletScenario
        => (result = Ok /\ payments = <<BulletRow(from_ymd(2022, 12, 27), 20 * M, 1080 * M)>>)

C6_Witness ==
    /\ BulletScenario
    /\ result = Ok
    /\ Len(payments) = 1
    /\ payments[1].date = call.zero_date + 360
    /\ payments[1].tax = 20 * M

RowDatesSorted == \A i \in 1..(Len(payments) - 1) : payments[i].date <= payments[i + 1].date

\* C7, as stated: for every accepted schedule the dates of the rows never
\* go back.
C7_Original ==
    TableReturned => RowDatesSorted

\* C7: for every accepted schedule whose dates never go back, the dates of
\* the rows never go back.
C7_RowDates ==
    (TableReturned /\ Sorted(kwa.amortizations)) => RowDatesSorted

\* Three entries a year apart, two rows a year apart
C7_Witness ==
    /\ TableReturned
    /\ Sorted(kwa.amortizations)
    /\ Len(payments) = 2
    /\ payments[1].date < payments[2].date

\* The validation of get_payments_table has come to the ratios
AtRatios ==
    /\ call.fn = "get_payments_table"
    /\ pc # "validate"
    /\ kwa.principal >= CENTI
    /\ Len(kwa.amortizations) >= 2
    /\ ~(~kwa.vir.some /\ kwa.capitalisation = "Days252")
    /\ ~(kwa.vir.some /\ kwa.vir.code = "CDI" /\ kwa.capitalisation # "Days252")

\* Some running sum of the ratios is over 1 + 1e-9
Oversubscribed ==
    \E k \in 1..Len(kwa.amortizations) :
        RatioSum(kwa.amortizations, k) > ONE + TOLERANCE

\* C8: the validation returns the overflow error exactly when some running
\* sum of the ratios is over 1 + 1e-9, and the "does not reach" error
\* exactly when no running sum is and the total is under 1 - 1e-9; so an
\* over-subscribed schedule always gets the overflow error.
C8_RatioValidation ==
    AtRatios
        => /\ result = Err(ERR_OVERFLOW) <=> Oversubscribed
           /\ result = Err(ERR_NOT_REACH)
                <=> (~Oversubscribed
                     /\ RatioSum(kwa.amortizations, Len(kwa.amortizations))
                            < ONE - TOLERANCE)

\* A total of 1 + 2e-9 is refused for its overflow
C8_Witness ==
    /\ AtRatios
    /\ Len(kwa.amortizations) = 2
    /\ RatioSum(kwa.amortizations, 2) = ONE + 2
    /\ result = Err(ERR_OVERFLOW)

\* get_livre_payments with an origination and ratios 0.4, 0.4, 0.3 a month
\* apart, no insertion and no vir
LivreOversubscribed ==
    /\ call.fn = "get_livre_payments"
    /\ call.amortizations
         = LivreSchedule(<<400000000, 400000000, 300000000>>, 30)
    /\ call.insertions = <<>>
    /\ ~call.vir.some
    /\ pc = "done"

\* C9: get_livre_payments with ratios 0.4, 0.4, 0.3 fails with the
\* ratio-overflow error, which is not the error of a schedule that does not
\* reach 1.
C9_LivreOverflow ==
    LivreOversubscribed
        => /\ result = Err(ERR_OVERFLOW)
           /\ result # Err(ERR_NOT_REACH)

\* C10: with principal = 0 get_payments_table and get_daily_returns return
\* Ok with no row, whatever the other arguments.
C10_ZeroPrincipal ==
    (/\ call.fn \in {"get_payments_table", "get_daily_returns"}
     /\ call.kwa.principal = ZERO
     /\ pc \notin {"validate", "daily"})
        => /\ pc = "done"
           /\ result = Ok
           /\ payments = <<>>
           /\ daily_returns = <<>>

\* get_daily_returns with principal = 0, a schedule of one entry and an
\* index it does not support
C10_Witness ==
    /\ call.fn = "get_daily_returns"
    /\ call.kwa.principal = ZERO
    /\ Len(call.kwa.amortizations) = 1
    /\ call.kwa.vir.some
    /\ call.kwa.vir.code = "Poupanca"
    /\ pc = "done"
    /\ result = Ok
    /\ daily_returns = <<>>

\* C11: get_payments_table returns an error and no row when the principal
\* is not zero and below 0.01, or when the schedule has fewer than 2
\* entries; the error of the principal comes before the error of the length.
C11_PrincipalAndLength ==
    (/\ call.fn = "get_payments_table"
     /\ pc # "validate"
     /\ kwa.principal # ZERO
     /\ (kwa.principal < CENTI \/ Len(kwa.amortizations) < 2))
        => /\ pc = "done"
           /\ payments = <<>>
           /\ result = IF kwa.principal < CENTI THEN Err(ERR_PRINCIPAL)
                       ELSE Err(ERR_LEN)

\* A principal of 0.001 with a schedule of one entry: the error is that of
\* the principal
C11_Witness ==
    /\ call.fn = "get_payments_table"
    /\ pc = "done"
    /\ kwa.principal = 1000
    /\ Len(kwa.amortizations) = 1
    /\ result = Err(ERR_PRINCIPAL)
    /\ payments = <<>>

\* The principal and the schedule pass the validation
GoodSchedule ==
    /\ kwa.principal >= CENTI
    /\ Len(kwa.amortizations) >= 2
    /\ ~RatioLoop[kwa.amortizations, 1, ZERO].overflows
    /\ is_close_to(RatioLoop[kwa.amortizations, 1, ZERO].aux, ONE, TOLERANCE)

StrictlySorted(s) == \A i \in 1..(Len(s) - 1) : s[i].date < s[i + 1].date

\* The pairs of index and capitalisation the validation refuses
RefusedPair ==
    \/ ~kwa.vir.some /\ kwa.capitalisation = "Days252"
    \/ kwa.vir.some /\ kwa.vir.code = "CDI" /\ kwa.capitalisation # "Days252"

\* The other pairs of the factor table
TablePair ==
    \/ ~kwa.vir.some /\ kwa.capitalisation \in {"Days360", "Days365", "Days30360"}
    \/ kwa.vir.some /\ kwa.vir.code = "CDI" /\ kwa.capitalisation = "Days252"
    \/ kwa.vir.some /\ kwa.vir.code = "Poupanca" /\ kwa.capitalisation = "Days360"

\* C12: get_payments_table and get_daily_returns fail with no row when there
\* is no index and the capitalisation is 252, and when the index is CDI and
\* the capitalisation is not 252; every other pair of the factor table (no
\* index with 360, 365 or 30/360, CDI with 252, Poupanca with 360) is
\* accepted and produces rows.  The schedules are those the validation
\* accepts whose dates go strictly forward.
C12_Combinations ==
    (/\ call.fn \in {"get_payments_table", "get_daily_returns"}
     /\ pc = "done"
     /\ GoodSchedule
     /\ StrictlySorted(kwa.amortizations))
        => /\ RefusedPair
                => (result.kind = "err" /\ payments = <<>> /\ daily_returns = <<>>)
           /\ TablePair
                => (result.kind # "err" /\ (payments # <<>> \/ daily_returns # <<>>))

\* The arguments of the call, with runaway = false
NoRunaway == [kwa EXCEPT !.calc_date.runaway = FALSE]

\* get_payments_table has returned a table for a calc_date with runaway =
\* true whose value is before the last date of the schedule, and returns one
\* for the same arguments with runaway = false.
RunawayReturned ==
    /\ call.fn = "get_payments_table"
    /\ pc = "done"
    /\ result.kind = "ok"
    /\ kwa.principal # ZERO
    /\ kwa.calc_date.some
    /\ kwa.calc_date.runaway
    /\ kwa.calc_date.value < LastEntry.date
    /\ RowCount(NoRunaway, 0, NewRegisters) >= 0

\* C13: with calc_date.runaway = true and calc_date.value before the last
\* date of the schedule, get_payments_table returns exactly one row more than
\* for the same arguments with runaway = false.
C13_Runaway ==
    RunawayReturned => Len(payments) = RowCount(NoRunaway, 0, NewRegisters) + 1

\* get_daily_returns has gone past its validation
DailyAccepted ==
    /\ call.fn = "get_daily_returns"
    /\ ValidateDaily(kwa.principal, kwa.amortizations, kwa.vir, kwa.capitalisation)
         = "go"

\* C14: for every input that passes the validation get_daily_returns
\* terminates and returns its rows: at most one row a day, the days going
\* forward from the first date of the schedule to the last, every entry
\* consumed once on its date, the last one on the last day, and no row from
\* the day the balance rounds to 0.
C14_DailyTerminates ==
    (DailyAccepted /\ pc = "done")
        => /\ result.kind = "ok"
           /\ \A i \in 1..Len(daily_returns) :
                /\ kwa.amortizations[1].date <= daily_returns[i].date
                /\ daily_returns[i].date <= LastEntry.date
                /\ daily_returns[i].bal # ZERO
                /\ i > 1 => daily_returns[i - 1].date < daily_returns[i].date

\* The sum of the values of the first i daily rows that are of period p
RECURSIVE PeriodValue(_, _, _)
PeriodValue(rows, i, p) ==
    IF i = 0 THEN ZERO
    ELSE PeriodValue(rows, i - 1, p)
           + (IF rows[i].period = p THEN rows[i].value ELSE ZERO)

\* The rows get_payments_table returns for the arguments of the call
TwinTable == TableRows(kwa, 0, NewRegisters)

\* get_daily_returns has returned its rows, and get_payments_table returns a
\* table for the same arguments, with gain_output = Current.
BothReturned ==
    /\ DailyAccepted
    /\ pc = "done"
    /\ result.kind = "ok"
    /\ kwa.gain_output = "Current"
    /\ TwinTable.kind = "ok"

\* C15: for get_payments_table with gain_output = Current and
\* get_daily_returns on the same arguments, in every period the values of
\* the daily rows of the period add up to the gain of the period's payment
\* row, within 0.02.
C15_RoundTrip ==
    BothReturned
        => \A p \in 1..Len(TwinTable.payments) :
               Abs(PeriodValue(daily_returns, Len(daily_returns), p)
                     - TwinTable.payments[p].gain) <= 2 * CENTI

\* ------------------------------------------------------------------------
\* Schedule preprocessors (C16 to C18)
\* ------------------------------------------------------------------------

PreFns == {"get_bullet_payments", "get_jm_payments", "get_price_payments",
           "get_livre_payments"}

\* A preprocessor returned a schedule, which the wrapper put into kwa
Preprocessed == call.fn \in PreFns /\ kwa # NoKwa

\* The origination date and the last regular payment date of the call
CallZeroDate ==
    IF call.fn = "get_livre_payments" THEN call.amortizations[1].date
    ELSE call.zero_date
LastRegularDate ==
    IF call.fn = "get_livre_payments"
    THEN call.amortizations[Len(call.amortizations)].date
    ELSE IF call.fn = "get_bullet_payments"
    THEN (IF call.anniversary_date.some THEN call.anniversary_date.value
          ELSE call.zero_date + call.term * 30)
    ELSE (IF call.anniversary_date.some
          THEN call.anniversary_date.value + (call.term - 1) * 30
          ELSE call.zero_date + call.term * 30)

\* C16: every schedule a preprocessor returns is sorted by date and has no
\* two entries on the same date, whatever the order and the dates of the
\* insertions that passed its validation.
C16_SortedUnique == Preprocessed => StrictlySorted(kwa.amortizations)

\* C17: no preprocessor returns a schedule when one of the insertions has a
\* value of zero or less; the call ends in an error.
C17_PositiveInsertions ==
    (/\ call.fn \in PreFns
     /\ \E i \in 1..Len(call.insertions) : call.insertions[i].value <= ZERO)
    => /\ kwa = NoKwa
       /\ pc = "done" => result.kind = "err"

\* C18: a preprocessor returns a schedule only when every insertion is dated
\* strictly after zero_date and strictly before the last regular payment
\* date.
C18_InsertionDates ==
    Preprocessed =>
        \A i \in 1..Len(call.insertions) :
            /\ call.insertions[i].date > CallZeroDate
            /\ call.insertions[i].date < LastRegularDate

\* ------------------------------------------------------------------------
\* The index backend (C19)
\* ------------------------------------------------------------------------

CdiReturned == call.fn = "calculate_cdi_factor" /\ pc = "done"

\* The dates of the entries returned
CdiDates == {cdi.indexes[i].date : i \in 1..Len(cdi.indexes)}

\* C19: get_cdi_indexes(begin, end) returns one entry for each date d with
\* begin <= d < end that is not ignored, in increasing order, never the
\* date end, and calculate_cdi_factor counts those entries as n_days.
C19_CdiRange ==
    CdiReturned =>
        LET want == {d \in call.begin..(call.end - 1) : d \notin IGNORE_CDI}
        IN  /\ CdiDates = want
            /\ Len(cdi.indexes) = Cardinality(want)
            /\ StrictlySorted(cdi.indexes)
            /\ call.end \notin CdiDates
            /\ CdiDates \cap IGNORE_CDI = {}
            /\ cdi.count = Cardinality(want)

\* ------------------------------------------------------------------------
\* Prepayments (C20)
\* ------------------------------------------------------------------------

\* The entry the loop registers next was made from an insertion of the call:
\* the schedule has one entry per date and this one has an insertion's date.
AtInsertion ==
    /\ call.fn \in PreFns
    /\ pc = "loop"
    /\ StrictlySorted(kwa.amortizations)
    /\ \A i \in 1..Len(call.insertions) : call.insertions[i].value > ZERO
    /\ \E i \in 1..Len(call.insertions) :
           call.insertions[i].date = kwa.amortizations[num + 2].date

\* The value V of that insertion
InsertionValue ==
    LET i == CHOOSE i \in 1..Len(call.insertions) :
                 call.insertions[i].date = kwa.amortizations[num + 2].date
    IN  call.insertions[i].value

\* The split of V the prepayment arm makes, from the registers before the
\* event: val0 = min(V, balance), val1 = min(val0, accrued - settled.total),
\* val2 = min(val0 - val1, plfv), val3 = val0 - val1 - val2.
PrepaymentSplit ==
    LET f == Factors(kwa.vir, kwa.capitalisation, kwa.apy,
                     kwa.amortizations[num + 1], kwa.amortizations[num + 2], num,
                     EffectiveCalcDate(kwa.calc_date, kwa.amortizations))
        current == MulMU(calc_balance(kwa.principal, f.f_c, regs.interest.accrued,
                                      regs.principal.amortized.total,
                                      regs.interest.settled.total), f.f_s - ONE)
        accrued == regs.interest.accrued + current
        plfv == MulMU(MulMU(kwa.principal,
                            ONE - regs.principal.amortization_ratio.current),
                      f.f_c - ONE)
        val0 == Min(InsertionValue,
                    calc_balance(kwa.principal, f.f_c, accrued,
                                 regs.principal.amortized.total,
                                 regs.interest.settled.total))
        val1 == Min(val0, accrued - regs.interest.settled.total)
        val2 == Min(val0 - val1, plfv)
    IN  [val0 |-> val0, val1 |-> val1, val2 |-> val2,
         val3 |-> val0 - val1 - val2]

\* C20: when get_payments_table registers an entry made from an insertion of
\* value V, the parts val1, val2 and val3 of the cash applied are not
\* negative and add up to val0; the row's amort is val3, the interest it
\* settles is val1, and the amortized ratio grows by val3 / principal.
C20_PrepaymentSplit ==
    [][(AtInsertion /\ Len(payments') = Len(payments) + 1) =>
          LET v == PrepaymentSplit
          IN  /\ v.val1 >= ZERO /\ v.val2 >= ZERO /\ v.val3 >= ZERO
              /\ v.val1 + v.val2 + v.val3 = v.val0
              /\ regs'.principal.amortized.current = v.val3
              /\ payments'[Len(payments')].amort = RoundDp2(v.val3)
              /\ regs'.interest.settled.current = v.val1
              /\ regs'.principal.amortization_ratio.current
                   = regs.principal.amortization_ratio.current
                     + DivMM(v.val3, kwa.principal)]_vars

\* ------------------------------------------------------------------------
\* The registers of the engine (C21 to C25, C30)
\* ------------------------------------------------------------------------

\* get_payments_table is about to register the pair (ent0, ent1) of a
\* schedule with strictly increasing dates
AtEvent ==
    /\ pc = "loop"
    /\ StrictlySorted(kwa.amortizations)
    /\ InReachOrRunaway(kwa.amortizations[num + 1], kwa.amortizations[num + 2],
                        EffectiveCalcDate(kwa.calc_date, kwa.amortizations))

\* get_daily_returns is on the date of the entry its while loop takes next
AtDailyEvent ==
    /\ pc = "day"
    /\ StrictlySorted(kwa.amortizations)
    /\ daily.ref_date = kwa.amortizations[daily.next].date

\* C21: when ratio.regular = 1 before a regular event of get_payments_table
\* or get_daily_returns, adj is taken as 1 and the call does not abort in a
\* division by zero.
C21_AdjGuard ==
    [][((AtEvent \/ AtDailyEvent)
        /\ regs.principal.amortization_ratio.regular = ONE)
       => result'.kind # "panic"]_vars

\* get_payments_table ran, called directly or by a wrapper
EngineFns == TableFns \cup {"get_jm_payments", "get_price_payments"}

\* C22: once get_payments_table has emitted a row whose bal is 0.00 it emits
\* no further row and returns: only the last row of a table can have
\* bal = 0.00, also when schedule entries remain after that row.
C22_StopsAtZero ==
    (call.fn \in EngineFns /\ payments # <<>>) =>
        /\ \A i \in 1..(Len(payments) - 1) : payments[i].bal # ZERO
        /\ LastRow.bal = ZERO => (pc = "done" /\ result = Ok)

\* A returned table that ends on a row of bal = 0.00 before the schedule
\* does: an entry remains after the one of the last row.
C22_Witness ==
    /\ call.fn \in EngineFns
    /\ pc = "done"
    /\ result = Ok
    /\ Len(payments) >= 2
    /\ LastRow.bal = ZERO
    /\ LastRow.no + 1 < Len(kwa.amortizations)

\* Every ratio of the schedule is in [0, 1], as the Amortization entry of the
\* data model has it
RatiosInRange(s) ==
    \A i \in 1..Len(s) : s[i].amortization_ratio >= ZERO /\ s[i].amortization_ratio <= ONE

\* get_payments_table accepted its arguments and has registered an event
AfterEvent == call.fn \in EngineFns /\ pc \in {"loop", "done"} /\ num > 0

\* The balance of the registers is not negative, nor the bal of any row
BalanceNotNegative ==
    /\ Balance(regs, kwa.principal, ONE) >= ZERO
    /\ \A i \in 1..Len(payments) : payments[i].bal >= ZERO

C25_Deferred ==
    AfterEvent =>
        regs.interest.deferred
          = regs.interest.accrued
              - (regs.interest.current + regs.interest.settled.total)

\* ------------------------------------------------------------------------
\* The CDI indexes of the daily replay (C26)
\* ------------------------------------------------------------------------

DailyCdi ==
    /\ call.fn = "get_daily_returns"
    /\ kwa.vir.some /\ kwa.vir.code = "CDI"
    /\ kwa.capitalisation = "Days252"
    /\ Len(kwa.amortizations) >= 2

\* The indexes the replay was given
ReplayIndexes ==
    get_normalized_cdi_indexes(kwa.amortizations[1].date,
                               kwa.amortizations[Len(kwa.amortizations)].date)

\* The row of day d was made with the backend's index for d, and with both
\* factors 1 when the backend ignores d
OwnIndex(row) ==
    LET e == get_cdi_indexes(row.date, row.date)
    IN  IF e = <<>>
        THEN row.fixed_factor = ONE /\ row.variable_factor = ONE
        ELSE row.variable_factor
               = MulDiv(e[1].value \div 100, kwa.vir.percentage, 100) + ONE

\* The days the replay has been through that the backend does not ignore
IndexedDays ==
    Cardinality({d \in kwa.amortizations[1].date..(daily.ref_date - 1) :
                    d \notin IGNORE_CDI})

\* The replay aborted on a day for which no index was left
RanOut == pc = "done" /\ result = Panic /\ daily.idx >= Len(ReplayIndexes)

\* C26: in get_daily_returns with CDI and capitalisation 252 every day's row
\* is made with the backend's index for that day, a day the backend ignores
\* consumes no index and has fixed_factor = variable_factor = 1, and the
\* replay does not run out of indexes.
C26_DailyCdiIndexes ==
    DailyCdi =>
        /\ \A i \in 1..Len(daily_returns) : OwnIndex(daily_returns[i])
        /\ pc = "day" => daily.idx = IndexedDays
        /\ ~RanOut

\* ------------------------------------------------------------------------
\* calc_date (C27, C28)
\* ------------------------------------------------------------------------

\* The date the row of the pair (ent0, ent1) is taxed at
Due ==
    Min(EffectiveCalcDate(kwa.calc_date, kwa.amortizations).value,
        kwa.amortizations[num + 2].date)

\* C27: on a schedule of strictly increasing dates, whatever the calc_date
\* and its runaway flag, get_payments_table calls calculate_revenue_tax
\* only with end > begin and does not abort in it.
C27_TaxLookup ==
    [][(/\ AtEvent
        /\ kwa.amortizations[num + 2].amortizes_interest
        /\ regs.principal.amortization_ratio.regular # ONE)
       => /\ Due > kwa.amortizations[1].date
          /\ result'.kind # "panic"]_vars

\* An engine call on a schedule of strictly increasing dates whose calc_date
\* (given or defaulted) does not run away
WithoutRunaway ==
    /\ call.fn \in EngineFns
    /\ pc \in {"loop", "done"}
    /\ Len(kwa.amortizations) >= 2
    /\ StrictlySorted(kwa.amortizations)
    /\ ~EffectiveCalcDate(kwa.calc_date, kwa.amortizations).runaway

\* The rows dated after the calc_date
RowsAfterCalcDate ==
    { i \in 1..Len(payments) :
        payments[i].date > EffectiveCalcDate(kwa.calc_date, kwa.amortizations).value }

\* The pairs the loop has gone through: all of them once it returned the
\* table (a principal of zero returns the empty table before the loop)
PairsDone ==
    IF pc = "done" /\ result = Ok /\ kwa.principal # ZERO
    THEN Len(kwa.amortizations) - 1
    ELSE num

\* The pairs of the schedule once a table is returned, those gone through
\* before
PairsReturned == IF pc = "done" /\ result = Ok THEN Len(kwa.amortizations) - 1 ELSE num

\* Of the first pairs pairs, (ent0, ent1) has a row exactly when
\* ent0.date < calc_date.value and no earlier row closed the balance; rows
\* are numbered from 1 without gaps and dated ent1.date; at most one row is
\* dated after the calc_date; a calc_date not after schedule[0].date gives
\* no row.
CalcDateRows(pairs) ==
    LET c == EffectiveCalcDate(kwa.calc_date, kwa.amortizations).value
        n == Len(payments)
    IN  /\ \A i \in 1..n :
            /\ payments[i].no = i
            /\ payments[i].date = kwa.amortizations[i + 1].date
            /\ kwa.amortizations[i].date < c
            /\ i < n => ~BalanceClosed(payments[i])
        /\ n < pairs =>
            \/ n > 0 /\ BalanceClosed(payments[n])
            \/ kwa.amortizations[n + 1].date >= c
        /\ Cardinality(RowsAfterCalcDate) <= 1
        /\ c <= kwa.amortizations[1].date => n = 0

\* C28: with runaway = false, strictly increasing dates and a principal that
\* is not zero, the pair (ent0, ent1) gets a row exactly when
\* ent0.date < calc_date.value and no earlier row closed the balance; rows
\* are numbered from 1 without gaps and dated ent1.date; at most one row is
\* dated after the calc_date; a calc_date not after schedule[0].date gives
\* the empty table.
C28_CalcDateRows == WithoutRunaway => CalcDateRows(PairsDone)

\* C28 as stated, for every principal: the same of every pair of the
\* schedule of a returned table.
C28_Original == WithoutRunaway => CalcDateRows(PairsReturned)

\* A returned table whose last row is dated after the calc_date, the balance
\* open, and the pair after it left without a row
C28_Witness ==
    /\ WithoutRunaway
    /\ pc = "done"
    /\ result = Ok
    /\ Len(payments) > 0
    /\ Len(payments) < Len(kwa.amortizations) - 1
    /\ RowsAfterCalcDate = {Len(payments)}
    /\ ~BalanceClosed(payments[Len(payments)])

\* ------------------------------------------------------------------------
\* The DCT override of an insertion (C29)
\* ------------------------------------------------------------------------

MergeFns == {"get_jm_payments", "get_price_payments", "get_livre_payments"}

\* The regular flow of the call: the schedule its preprocessor returns when
\* there is no insertion
RegularEntries ==
    IF call.fn = "get_livre_payments" THEN call.amortizations
    ELSE IF call.fn = "get_jm_payments"
    THEN preprocess_jm(call.zero_date, call.term, <<>>, call.anniversary_date,
                       call.vir).sched
    ELSE preprocess_price(call.principal, call.apy, call.zero_date, call.term,
                          <<>>, call.anniversary_date).sched

\* The places of the merged schedule that hold an entry made from an insertion
InsertionPlaces ==
    { k \in 1..Len(kwa.amortizations) :
        \A j \in 1..Len(RegularEntries) : RegularEntries[j] # kwa.amortizations[k] }

\* The places after k that hold a regular entry
RegularAfter(k) == { j \in (k + 1)..Len(kwa.amortizations) : j \notin InsertionPlaces }

\* predates_first_amortization of the entry at k is true exactly when it is
\* dated before the first regular payment
PredatesFirst(k) ==
    kwa.amortizations[k].dct_override.predates_first_amortization
        <=> kwa.amortizations[k].date < RegularEntries[2].date

\* date_from of the entry at k is the date of the entry before it
DateFromPrevious(k) ==
    k > 1 => kwa.amortizations[k].dct_override.date_from = kwa.amortizations[k - 1].date

\* date_to of the entry at k is the date of the next regular entry
DateToNextRegular(k) ==
    RegularAfter(k) # {} =>
        kwa.amortizations[k].dct_override.date_to
            = kwa.amortizations[CHOOSE j \in RegularAfter(k) :
                                    \A h \in RegularAfter(k) : j <= h].date

\* C29: in a schedule returned by preprocess_jm, preprocess_price or
\* preprocess_livre, every entry made from an insertion has a dct_override
\* whose predates_first_amortization is true exactly when the insertion is
\* dated before the first regular payment, whose date_from is the date of
\* the entry before it and whose date_to is the date of the next regular
\* entry.
C29_InsertionOverride ==
    (call.fn \in MergeFns /\ kwa # NoKwa) =>
        \A k \in InsertionPlaces :
            /\ kwa.amortizations[k].dct_override.some
            /\ PredatesFirst(k)
            /\ DateFromPrevious(k)
            /\ DateToNextRegular(k)

\* ------------------------------------------------------------------------
\* The amortized principal (C30)
\* ------------------------------------------------------------------------

====
